---- MODULE Spec2Model ----
(***************************************************************************)
(* Model of the crawl controller of misinformation-telegram-crawler:       *)
(* crawler.py (CrawlController, BaselineCrawler, the message handlers),    *)
(* models.py (TelegramMessage.get_hash / duplicate_exists) and             *)
(* utility_functions.py (the JSON file that holds the crawl states).       *)
(*                                                                         *)
(* One operating-system process runs one call of CrawlController.crawl at  *)
(* a time.  The JSON collection and the message database outlive the       *)
(* process; the crawl_state dict, stop_check and the message iterator      *)
(* live in the process.                                                    *)
(*                                                                         *)
(* Specifications: Spec (all kinds of crawls, the clock held still),       *)
(* FairSpec (Spec without kills, with fairness), LabelingSpec (a labeling  *)
(* run over two chats), HandlerSpec (both handlers, the clock moving),     *)
(* DateSpec (date windows at the dates of messages), DuplicateSpec         *)
(* (duplicate_exists called by itself), KeywordSpec (crawls of the         *)
(* KeywordSearchCrawler), ClassifierSpec (crawls of the                    *)
(* BinaryClassifierCrawler), FilterSpec (its message_should_be_skipped     *)
(* called by itself), RelabelSpec (label_and_store_message called by       *)
(* itself), CrashSpec (the same with kills between its writes),            *)
(* ConcurrentSpec (a second process on the same database), EditSpec        *)
(* (NoLabelingMessageHandler.handle_message called by itself) and          *)
(* ResumeSpec (a labeling run that is resumed after it was finished).      *)
(***************************************************************************)
EXTENDS Integers, Sequences, FiniteSets, TLC

VARIABLES
    crawls,                     \* content of CRAWLS_JSON_FILE_PATH (a JSON list)
    db_messages,                \* rows of the TelegramMessage table
    db_skips,                   \* message hashes of the MessageToSkip rows
    db_message_topics,          \* rows of the MessageTopic table
    db_message_misconceptions,  \* rows of the MessageMisconception table
    now,                        \* what get_current_datetime() returns
    raised,                     \* the exception that ended the last process
    call_args,                  \* argument of the last call of a function
    call_result,                \* what that call returned
    pc,                         \* where the process is
    args,                       \* arguments of the running crawl() call
    crawl_state,                \* the crawl_state dict of the process
    crawl_to_be_resumed_index,  \* local of retrieve_or_initialize_crawl_state
    stop_check,                 \* local of start_or_resume_crawl
    no_new_messages,            \* local of start_or_resume_crawl
    crawl_stopped,              \* local of start_or_resume_crawl
    current_chat_id,            \* local of start_or_resume_crawl
    pos,                        \* position of the iter_messages iterator
    runs,                       \* number of crawl() calls made so far
    crawler,                    \* the crawler object of the CrawlController
    classifier_calls,           \* the calls of classify_message_binary so far
    other_run                   \* a process that crawls with another JSON file

vars == <<crawls, db_messages, db_skips, db_message_topics,
          db_message_misconceptions, now, raised, call_args, call_result,
          pc, args, crawl_state,
          crawl_to_be_resumed_index, stop_check, no_new_messages,
          crawl_stopped, current_chat_id, pos, runs,
          crawler, classifier_calls, other_run>>

----------------------------------------------------------------------------
(* Bounds *)

\* number of crawl() calls (process starts) in one behaviour
MaxRuns == 2

\* the latest reading of the clock in one behaviour
MaxNow == 1

----------------------------------------------------------------------------
(* Python values *)

\* Python None where a number is expected (an index, a chat id)
NoIndex == -1

\* a date argument is None or a datetime; JSON holds null or a string
None == [t |-> "None", v |-> 0]

datetime(d) == [t |-> "datetime", v |-> d]

\* str(x): "None" for None, the printed datetime for a datetime, x for a str
str(x) == [t |-> "str", v |-> x.v]

\* json.dump(..., default=str) followed by json.loads: None stays null,
\* a datetime becomes its string
json_value(x) == IF x.t = "datetime" THEN str(x) ELSE x

\* message.message is None
NoText == "<None>"

\* message.fwd_from is None
NoFwd == 0

\* a url that is None
NoUrl == "<None>"

\* the characters of a Python str
chars(string) ==
    CASE string = "" -> << >>
      [] string = "cab" -> <<"c", "a", "b">>
      [] string = "ab" -> <<"a", "b">>
      [] string = "Ab" -> <<"A", "b">>
      [] string = "ba" -> <<"b", "a">>
      [] OTHER -> <<string>>

\* x in y for two Python strs: x is a substring of y
contains(y, x) ==
    \E i \in 0..(Len(chars(y)) - Len(chars(x))) :
       SubSeq(chars(y), i + 1, i + Len(chars(x))) = chars(x)

\* str(x) for a list of strs
str_of_list(x) == [t |-> "str", v |-> x]

----------------------------------------------------------------------------
(* The chats on the platform: what client.iter_messages(chat_id,           *)
(* offset_date=max_date) yields, newest first.  The sequence keeps the     *)
(* messages newer than max_date, which message_should_be_skipped tests     *)
(* for.  Chat 1 holds a message forwarded from a chat that is no seed, a   *)
(* message without text and one older than the minimum date; chat 2 holds  *)
(* one newer than the maximum date, a poll, a copy of a message of chat 1  *)
(* and a message whose hash collides with one of chat 1.                   *)

Chats == {1, 2}

\* a chat that is no seed chat; messages are forwarded from it
OtherChat == 3

\* a chat whose messages have texts of several characters: one holds
\* "ab", one has no text, one holds "Ab", one "b" before "a", one is "a"
KeywordChat == 4

\* a Telethon message that is no forward and has no media
PlainMessage(id, date, message) ==
    [id |-> id, date |-> date, message |-> message, media |-> "",
     netloc |-> "", fwd_from |-> NoFwd, channel_post |-> 0, fwd_date |-> 0]

\* the messages as they were posted
posted_messages(chat_id) ==
    CASE chat_id = 1 ->
           << [PlainMessage(3, 3, "a") EXCEPT
                 !.fwd_from = OtherChat, !.channel_post = 1, !.fwd_date = 2,
                 !.media = "MessageMediaWebPage", !.netloc = "www.example.org"],
              PlainMessage(2, 2, NoText),
              PlainMessage(1, 1, "b") >>
      [] chat_id = 2 ->
           << PlainMessage(4, 4, "d"),
              [PlainMessage(3, 3, "p") EXCEPT !.media = "MessageMediaPoll"],
              PlainMessage(2, 3, "a"),
              PlainMessage(1, 1, "c") >>
      [] chat_id = KeywordChat ->
           << PlainMessage(5, 5, "cab"),
              PlainMessage(4, 4, NoText),
              PlainMessage(3, 3, "Ab"),
              PlainMessage(2, 2, "ba"),
              PlainMessage(1, 1, "a") >>
      [] OTHER -> << >>

\* a posted message as the platform returns it at a time: its counters grow
fetched(posted, time) ==
    [id |-> posted.id, date |-> posted.date, message |-> posted.message,
     media |-> posted.media, netloc |-> posted.netloc,
     fwd_from |-> posted.fwd_from, channel_post |-> posted.channel_post,
     fwd_date |-> posted.fwd_date, views |-> 10 * time, forwards |-> time]

\* what the platform returns for a chat at a time
iter_messages(chat_id, time) ==
    [ i \in 1..Len(posted_messages(chat_id)) |->
        fetched(posted_messages(chat_id)[i], time) ]

\* the arguments crawl() is called with: seed chats in both orders and
\* with a repeated chat, windows with and without either date, both modes
\* (the user labels the messages of one chat)
Args ==
    { [seed_chat_ids |-> <<1, 2>>, min_date |-> datetime(2),
       max_date |-> datetime(3), label_messages |-> FALSE],
      [seed_chat_ids |-> <<2, 1>>, min_date |-> datetime(2),
       max_date |-> datetime(3), label_messages |-> FALSE],
      [seed_chat_ids |-> <<1, 1>>, min_date |-> datetime(2),
       max_date |-> datetime(3), label_messages |-> FALSE],
      [seed_chat_ids |-> <<1, 2>>, min_date |-> None,
       max_date |-> datetime(3), label_messages |-> FALSE],
      [seed_chat_ids |-> <<1, 2>>, min_date |-> None,
       max_date |-> None, label_messages |-> FALSE],
      [seed_chat_ids |-> <<1>>, min_date |-> None,
       max_date |-> None, label_messages |-> TRUE] }

----------------------------------------------------------------------------
(* utility functions on sequences *)

InSeq(x, s) == \E i \in 1..Len(s) : s[i] = x

\* list.insert(0, x)
insert0(s, x) == <<x>> \o s

\* list.pop(0)
pop0(s) == Tail(s)

----------------------------------------------------------------------------
(* The persisted collection of crawl states (utility_functions.py and      *)
(* BaselineCrawler.store_crawl_state / retrieve_or_initialize_crawl_state) *)

\* the crawl_state dict before any crawl() call was made
NoCrawlState ==
    [index |-> 0, seed_chats |-> <<>>, min_date |-> None, max_date |-> None,
     chats_to_search |-> <<>>, chats_searched |-> <<>>,
     chats_not_searchable |-> <<>>, finished |-> None,
     no_labeling_mode |-> FALSE]

\* store_json then load_json of one crawl state: the dates become strings.
\* "chats_not_searchable" is a key the dict may lack; the empty list stands
\* for the missing key (the code never stores an empty list under it).
\* "finished" is None when the dict lacks the key "finished".
json_crawl_state(cs) ==
    [cs EXCEPT !.min_date = json_value(cs.min_date),
               !.max_date = json_value(cs.max_date),
               !.finished = json_value(cs.finished)]

\* store_crawl_state that writes a file of this crawl state alone
store_crawl_state_only_this_crawl(file, cs) ==
    << json_crawl_state(cs) >>

\* store_crawl_state that appends whether or not the index is taken
store_crawl_state_always_appends(file, cs) ==
    Append(file, json_crawl_state(cs))

\* BaselineCrawler.store_crawl_state: the new content of the JSON file
store_crawl_state(file, cs) ==
    IF Len(file) = cs.index
    THEN Append(file, json_crawl_state(cs))
    ELSE [file EXCEPT ![cs.index + 1] = json_crawl_state(cs)]

\* the match without the comparison of the minimum date
crawl_matches_without_min_date(c, seed_chat_ids, min_date, max_date, no_labeling_mode) ==
    /\ c.seed_chats = seed_chat_ids
    /\ str(c.max_date) = str(max_date)
    /\ c.no_labeling_mode = no_labeling_mode

\* the expression that retrieve_or_initialize_crawl_state evaluates for
\* a persisted crawl c (BaselineCrawler: no crawler-specific properties)
crawl_matches(c, seed_chat_ids, min_date, max_date, no_labeling_mode) ==
    /\ c.seed_chats = seed_chat_ids
    /\ str(c.min_date) = str(min_date)
    /\ str(c.max_date) = str(max_date)
    /\ c.no_labeling_mode = no_labeling_mode

\* the loop over the persisted crawls: index (0-based) of the first crawl
\* that matches, NoIndex if there is none
find_crawl_to_be_resumed(file, seed_chat_ids, min_date, max_date, label_message) ==
    LET matching == { i \in 1..Len(file) :
                        crawl_matches(file[i], seed_chat_ids, min_date,
                                      max_date, ~label_message) }
    IN  IF matching = {} THEN NoIndex
        ELSE (CHOOSE i \in matching : \A j \in matching : i <= j) - 1

\* a new crawl state that always takes the first slot
new_crawl_state_at_index_0(file, seed_chat_ids, min_date, max_date, label_message) ==
    [index |-> 0, seed_chats |-> seed_chat_ids,
     min_date |-> min_date, max_date |-> max_date,
     chats_to_search |-> seed_chat_ids, chats_searched |-> <<>>,
     chats_not_searchable |-> <<>>, finished |-> None,
     no_labeling_mode |-> ~label_message]

\* the crawl state of a crawl that is started anew
new_crawl_state(file, seed_chat_ids, min_date, max_date, label_message) ==
    [index |-> Len(file), seed_chats |-> seed_chat_ids,
     min_date |-> min_date, max_date |-> max_date,
     chats_to_search |-> seed_chat_ids, chats_searched |-> <<>>,
     chats_not_searchable |-> <<>>, finished |-> None,
     no_labeling_mode |-> ~label_message]

\* a resumed crawl state that starts over from the seed chats
resumed_crawl_state_from_seeds(file, i, min_date, max_date) ==
    [file[i + 1] EXCEPT !.index = i, !.min_date = min_date,
                        !.max_date = max_date,
                        !.chats_to_search = file[i + 1].seed_chats]

\* the crawl state of a crawl that is resumed
resumed_crawl_state(file, i, min_date, max_date) ==
    [file[i + 1] EXCEPT !.index = i, !.min_date = min_date,
                        !.max_date = max_date]

\* BaselineCrawler.retrieve_or_initialize_crawl_state
retrieve_or_initialize_crawl_state(file, seed_chat_ids, min_date, max_date, label_message) ==
    LET i == find_crawl_to_be_resumed(file, seed_chat_ids, min_date,
                                      max_date, label_message)
    IN  IF i # NoIndex
        THEN resumed_crawl_state(file, i, min_date, max_date)
        ELSE new_crawl_state(file, seed_chat_ids, min_date, max_date,
                             label_message)

----------------------------------------------------------------------------
(* models.py: the message table *)

\* TelegramMessage.get_hash: sha256 of the content cut to hash_size hex
\* digits.  It depends on the content only and, being cut, is not
\* injective: here "b" and "c" share their hash.
get_hash(message_content) ==
    CASE message_content = "a" -> "h1"
      [] message_content = "b" -> "h2"
      [] message_content = "c" -> "h2"
      [] message_content = "d" -> "h3"
      [] message_content = "p" -> "h4"
      [] message_content = "cab" -> "h5"
      [] message_content = "Ab" -> "h6"
      [] message_content = "ba" -> "h7"
      [] OTHER -> "h0"

\* urlparse(url).netloc without the prefix "www."; None for t.me
website(netloc) ==
    CASE netloc = "www.example.org" -> "example.org"
      [] netloc = "t.me" -> NoUrl
      [] OTHER -> netloc

\* from_telethon_message with a hash of the content and the chat
from_telethon_message_hash_of_chat(chat_id, telethon_message, store_forwarded_original, time) ==
    [chat |-> chat_id,
     message_id |-> telethon_message.id,
     content |-> telethon_message.message,
     hash |-> IF chat_id = 1 THEN get_hash(telethon_message.message)
              ELSE get_hash(""),
     creation_date |-> telethon_message.date,
     last_retrieved |-> time,
     views |-> telethon_message.views,
     forwards |-> telethon_message.forwards,
     url |-> NoUrl]

\* TelegramMessage.from_telethon_message at the time given: the metadata of
\* the original is taken for a forward only if store_forwarded_original
from_telethon_message(chat_id, telethon_message, store_forwarded_original, time) ==
    LET original == /\ telethon_message.fwd_from # NoFwd
                    /\ store_forwarded_original
    IN  [chat |-> IF original THEN telethon_message.fwd_from ELSE chat_id,
         message_id |-> IF original THEN telethon_message.channel_post
                        ELSE telethon_message.id,
         content |-> telethon_message.message,
         hash |-> get_hash(telethon_message.message),
         creation_date |-> IF original THEN telethon_message.fwd_date
                           ELSE telethon_message.date,
         last_retrieved |-> time,
         views |-> telethon_message.views,
         forwards |-> telethon_message.forwards,
         url |-> IF telethon_message.media = "MessageMediaWebPage"
                 THEN website(telethon_message.netloc)
                 ELSE NoUrl]

\* duplicate_exists that takes every row with the hash for the message
duplicate_exists_without_raise(table, m) ==
    LET duplicates == { r \in table : r.hash = m.hash }
    IN  IF duplicates # {}
        THEN LET duplicate == CHOOSE r \in duplicates : TRUE
             IN  [result |-> "True",
                  table |-> (table \ {duplicate})
                            \cup {[duplicate EXCEPT
                                     !.content = m.content,
                                     !.url = m.url,
                                     !.views = m.views,
                                     !.forwards = m.forwards,
                                     !.last_retrieved = m.last_retrieved]}]
        ELSE [result |-> "False", table |-> table]

\* duplicate_exists that leaves the counters of the stored row as they are
duplicate_exists_keeps_counters(table, m) ==
    LET duplicates == { r \in table : r.hash = m.hash }
    IN  IF duplicates # {}
        THEN LET duplicate == CHOOSE r \in duplicates : TRUE
             IN  IF \/ duplicate.content = m.content
                    \/ /\ duplicate.chat = m.chat
                       /\ duplicate.message_id = m.message_id
                 THEN [result |-> "True",
                       table |-> (table \ {duplicate})
                                 \cup {[duplicate EXCEPT
                                          !.content = m.content,
                                          !.url = m.url,
                                          !.last_retrieved = m.last_retrieved]}]
                 ELSE [result |-> "raise", table |-> table]
        ELSE [result |-> "False", table |-> table]

\* TelegramMessage.duplicate_exists: result "True", "False" or "raise"
\* (hash collision), and the message table afterwards
duplicate_exists(table, m) ==
    LET duplicates == { r \in table : r.hash = m.hash }
    IN  IF duplicates # {}
        THEN LET duplicate == CHOOSE r \in duplicates : TRUE
             IN  IF \/ duplicate.content = m.content
                    \/ /\ duplicate.chat = m.chat
                       /\ duplicate.message_id = m.message_id
                 THEN [result |-> "True",
                       table |-> (table \ {duplicate})
                                 \cup {[duplicate EXCEPT
                                          !.content = m.content,
                                          !.url = m.url,
                                          !.views = m.views,
                                          !.forwards = m.forwards,
                                          !.last_retrieved = m.last_retrieved]}]
                 ELSE [result |-> "raise", table |-> table]
        ELSE [result |-> "False", table |-> table]

\* Model.save(force_insert=True): hash is the primary key, so the insert
\* of a second row with a stored hash raises IntegrityError
save_force_insert(table, m) == table \cup {m}

----------------------------------------------------------------------------
(* crawler.py: the message handlers.  A handler works on the database      *)
(* d = [messages, skips, topics, misconceptions] and returns [status, d];  *)
(* a status in Raises is an exception that leaves the handler.             *)

\* the exception of duplicate_exists
HashCollision == "Exception: Hash collision!"

\* the exception of label_and_store_message, where it reads a local
\* variable that was never assigned
UnboundLocal == "UnboundLocalError: status"

Raises == {HashCollision, UnboundLocal}

\* the misconception of the row that stands for "no misconception"
NoMisconception == "<None>"

Topics == {"topic"}

Misconceptions == {"misconception"}

\* the answers to the menu of confirm_empty_selection
Answers == {"store", "again", "skip", "later", "stop"}

\* one round of prompts: the labels selected (misconceptions are offered
\* per selected topic) and the answer given if the menu is shown
\* whether the turn shows the menu of confirm_empty_selection
MenuShown(t) == t.selected_topics = {} \/ t.selected_misconceptions = {}

\* the answer of a turn in which the menu is not shown
NoAnswer == "store"

UserTurns ==
    { t \in [selected_topics : SUBSET Topics,
             selected_misconceptions : SUBSET Misconceptions,
             answer : Answers] :
        /\ t.selected_topics = {} => t.selected_misconceptions = {}
        /\ ~MenuShown(t) => t.answer = NoAnswer }

\* what the user enters for one message: "label the message again?"
\* starts another round, at most once
UserScripts ==
    { <<t>> : t \in { u \in UserTurns : MenuShown(u) => u.answer # "again" } }
    \cup
    { <<t1, t2>> : t1 \in { u \in UserTurns : MenuShown(u) /\ u.answer = "again" },
                   t2 \in { u \in UserTurns : MenuShown(u) => u.answer # "again" } }

\* the input of a handler that prompts nobody (NoLabelingMessageHandler)
NoScript == << [selected_topics |-> {}, selected_misconceptions |-> {},
                answer |-> "store"] >>

\* message_should_be_skipped that passes a stored message on
handler_message_should_be_skipped_never_stored(table, m, skip_messages_already_stored) ==
    IF m.content \in {"", NoText}
    THEN [result |-> "True", table |-> table]
    ELSE LET dup == duplicate_exists(table, m)
         IN  IF dup.result = "True"
             THEN [result |-> "False", table |-> dup.table]
             ELSE dup

\* TelegramMessageHandler.message_should_be_skipped: [result, messages]
handler_message_should_be_skipped(table, m, skip_messages_already_stored) ==
    IF m.content \in {"", NoText}
    THEN [result |-> "True", table |-> table]
    ELSE LET dup == duplicate_exists(table, m)
         IN  IF dup.result = "True" /\ ~skip_messages_already_stored
             THEN [result |-> "False", table |-> dup.table]
             ELSE dup

\* NoLabelingMessageHandler.handle_message
no_labeling_handle_message(d, m) ==
    LET skip == handler_message_should_be_skipped(d.messages, m, TRUE)
    IN  CASE skip.result = "raise" ->
               [status |-> HashCollision, d |-> d]
          [] skip.result = "True" ->
               [status |-> "message skipped",
                d |-> [d EXCEPT !.messages = skip.table]]
          [] OTHER ->
               [status |-> "message stored without labels",
                d |-> [d EXCEPT !.messages = save_force_insert(skip.table, m)]]

\* LabelingMessageHandler.message_should_be_skipped
labeling_message_should_be_skipped(d, m, skip_messages_already_stored) ==
    LET skip == handler_message_should_be_skipped(d.messages, m,
                                                  skip_messages_already_stored)
    IN  IF skip.result = "False" /\ m.hash \in d.skips
        THEN [skip EXCEPT !.result = "True"]
        ELSE skip

RECURSIVE label_and_store_message(_, _, _)
RECURSIVE confirm_empty_selection(_, _, _)

\* confirm_empty_selection that records a skip marker when the user stops
\* the crawl
confirm_empty_selection_stop_marks_skip(d, m, script) ==
    LET answer == Head(script).answer
    IN  CASE answer = "store" ->
               [status |-> "message stored without labels", d |-> d]
          [] answer = "again" ->
               label_and_store_message(d, m, Tail(script))
          [] answer \in {"skip", "later"} ->
               [status |-> "message skipped",
                d |-> [d EXCEPT !.skips = @ \cup {m.hash}]]
          [] OTHER ->
               [status |-> "stop crawl",
                d |-> [d EXCEPT !.skips = @ \cup {m.hash}]]

\* LabelingMessageHandler.confirm_empty_selection
confirm_empty_selection(d, m, script) ==
    LET answer == Head(script).answer
    IN  CASE answer = "store" ->
               [status |-> "message stored without labels", d |-> d]
          [] answer = "again" ->
               label_and_store_message(d, m, Tail(script))
          [] answer \in {"skip", "later"} ->
               [status |-> "message skipped",
                d |-> [d EXCEPT !.skips = @ \cup {m.hash}]]
          [] OTHER ->
               [status |-> "stop crawl", d |-> d]

\* the statements after the prompts without the two deletes: the selected
\* labels are added to the labels the message has
store_message_and_labels_merges(d, m, selected_topics, selected_misconceptions) ==
    LET stored == { r \in d.messages : r.hash = m.hash }
        d1 == IF stored = {}
              THEN [d EXCEPT !.messages = save_force_insert(@, m)]
              ELSE d
    IN  [d1 EXCEPT
           !.topics = @ \cup { [chat |-> m.chat, message_hash |-> m.hash,
                                topic |-> t] : t \in selected_topics },
           !.misconceptions =
               @ \cup { [chat |-> m.chat, message_hash |-> m.hash,
                         misconception |-> x] :
                        x \in IF selected_misconceptions = {}
                              THEN {NoMisconception}
                              ELSE selected_misconceptions }]

\* the statements after the prompts without the delete of
\* MessageMisconception rows
store_message_and_labels_keeps_misconceptions(d, m, selected_topics, selected_misconceptions) ==
    LET stored == { r \in d.messages : r.hash = m.hash }
        d1 == IF stored = {}
              THEN [d EXCEPT !.messages = save_force_insert(@, m)]
              ELSE [d EXCEPT
                      !.topics = { r \in @ : r.message_hash # m.hash }]
    IN  [d1 EXCEPT
           !.topics = @ \cup { [chat |-> m.chat, message_hash |-> m.hash,
                                topic |-> t] : t \in selected_topics },
           !.misconceptions =
               @ \cup { [chat |-> m.chat, message_hash |-> m.hash,
                         misconception |-> x] :
                        x \in IF selected_misconceptions = {}
                              THEN {NoMisconception}
                              ELSE selected_misconceptions }]

\* label_and_store_message, the statements after the prompts: the message
\* is inserted if its hash is not stored, else its labels are deleted;
\* then the selected labels are written
store_message_and_labels(d, m, selected_topics, selected_misconceptions) ==
    LET stored == { r \in d.messages : r.hash = m.hash }
        d1 == IF stored = {}
              THEN [d EXCEPT !.messages = save_force_insert(@, m)]
              ELSE [d EXCEPT
                      !.topics = { r \in @ : r.message_hash # m.hash },
                      !.misconceptions = { r \in @ : r.message_hash # m.hash }]
    IN  [d1 EXCEPT
           !.topics = @ \cup { [chat |-> m.chat, message_hash |-> m.hash,
                                topic |-> t] : t \in selected_topics },
           !.misconceptions =
               @ \cup { [chat |-> m.chat, message_hash |-> m.hash,
                         misconception |-> x] :
                        x \in IF selected_misconceptions = {}
                              THEN {NoMisconception}
                              ELSE selected_misconceptions }]

\* LabelingMessageHandler.label_and_store_message
label_and_store_message(d, m, script) ==
    LET selected_topics == Head(script).selected_topics
        selected_misconceptions == Head(script).selected_misconceptions
        \* the local variable status is assigned only if a selection is
        \* empty; reading it unassigned raises UnboundLocalError
        confirmed ==
            IF selected_topics = {} \/ selected_misconceptions = {}
            THEN confirm_empty_selection(d, m, script)
            ELSE [status |-> UnboundLocal, d |-> d]
    IN  CASE confirmed.status \in Raises -> confirmed
          [] confirmed.status = "stop crawl" -> confirmed
          [] OTHER ->
               [status |-> IF selected_misconceptions # {}
                           THEN "message stored with labels"
                           ELSE "message stored without labels",
                d |-> store_message_and_labels(confirmed.d, m, selected_topics,
                                               selected_misconceptions)]

RECURSIVE creates(_, _, _)

\* the databases after each create() of a loop over rows: rows is the
\* set of rows still to be written to the table named by field
creates(d, field, rows) ==
    IF rows = {} THEN << >>
    ELSE LET r == CHOOSE x \in rows : TRUE
             d1 == [d EXCEPT ![field] = @ \cup {r}]
         IN  <<d1>> \o creates(d1, field, rows \ {r})

\* the database after the last of the writes, d if there is none
after_writes(d, writes) ==
    IF writes = << >> THEN d ELSE writes[Len(writes)]

\* the statements of label_and_store_message after the prompts, write by
\* write: the databases after each statement that writes
store_message_and_labels_writes(d, m, selected_topics, selected_misconceptions) ==
    LET stored == { r \in d.messages : r.hash = m.hash }
        first ==
            IF stored = {}
            THEN << [d EXCEPT !.messages = save_force_insert(@, m)] >>
            ELSE << [d EXCEPT
                       !.topics = { r \in @ : r.message_hash # m.hash }],
                    [d EXCEPT
                       !.topics = { r \in @ : r.message_hash # m.hash },
                       !.misconceptions =
                           { r \in @ : r.message_hash # m.hash }] >>
        topics == creates(after_writes(d, first), "topics",
                          { [chat |-> m.chat, message_hash |-> m.hash,
                             topic |-> t] : t \in selected_topics })
        misconceptions ==
            creates(after_writes(d, first \o topics), "misconceptions",
                    { [chat |-> m.chat, message_hash |-> m.hash,
                       misconception |-> x] :
                       x \in IF selected_misconceptions = {}
                             THEN {NoMisconception}
                             ELSE selected_misconceptions })
    IN  first \o topics \o misconceptions

RECURSIVE label_and_store_message_writes(_, _, _)

\* label_and_store_message write by write: the databases after each
\* statement of the call that writes, those of confirm_empty_selection
\* and of the call it makes on "label the message again?" included
label_and_store_message_writes(d, m, script) ==
    LET selected_topics == Head(script).selected_topics
        selected_misconceptions == Head(script).selected_misconceptions
        answer == Head(script).answer
        confirmed == label_and_store_message(d, m, script)
        asked ==
            CASE selected_topics # {} /\ selected_misconceptions # {} -> << >>
              [] answer = "again" ->
                   label_and_store_message_writes(d, m, Tail(script))
              [] answer \in {"skip", "later"} ->
                   << [d EXCEPT !.skips = @ \cup {m.hash}] >>
              [] OTHER -> << >>
    IN  IF confirmed.status \in Raises \cup {"stop crawl"}
        THEN asked
        ELSE asked \o store_message_and_labels_writes(
                          after_writes(d, asked), m, selected_topics,
                          selected_misconceptions)

\* LabelingMessageHandler.handle_message
labeling_handle_message(d, m, script) ==
    LET skip == labeling_message_should_be_skipped(d, m, TRUE)
    IN  CASE skip.result = "raise" ->
               [status |-> HashCollision, d |-> d]
          [] skip.result = "True" ->
               [status |-> "message skipped",
                d |-> [d EXCEPT !.messages = skip.table]]
          [] OTHER ->
               label_and_store_message(d, m, script)

----------------------------------------------------------------------------
(* crawler.py: BaselineCrawler *)

\* BaselineCrawler(): the crawler of main()
BaselineCrawler == [class |-> "BaselineCrawler"]

\* crawl_should_be_stopped with an exclusive minimum date
crawl_should_be_stopped_at_min_date(cs, message, min_date, max_date) ==
    min_date # None /\ message.date <= min_date.v

\* crawl_should_be_stopped that lets the filter decide first
crawl_should_be_stopped_unless_skipped(cs, message, min_date, max_date) ==
    /\ min_date # None /\ message.date < min_date.v
    /\ message.message # NoText

\* BaselineCrawler.crawl_should_be_stopped
crawl_should_be_stopped(cs, message, min_date, max_date) ==
    min_date # None /\ message.date < min_date.v

\* message_should_be_skipped without the test for polls
message_should_be_skipped_but_polls(cs, message, min_date, max_date) ==
    \/ message.message = NoText
    \/ (max_date # None /\ message.date > max_date.v)

\* BaselineCrawler.message_should_be_skipped
message_should_be_skipped(cs, message, min_date, max_date) ==
    \/ message.message = NoText
    \/ (max_date # None /\ message.date > max_date.v)
    \/ message.media = "MessageMediaPoll"

\* truth value of a Python string
Truthy(string) == string # ""

\* handle_chat, the if/elif chain on the status of a labeled message
\* (after the "stop crawl" case): the crawl state afterwards
handle_status(cs, status, message_chat_id, chat_id) ==
    IF status = "message skipped" \/ Truthy("message stored without labels")
    THEN cs
    ELSE IF status = "message stored with labels"
         THEN IF /\ message_chat_id # chat_id
                 /\ ~InSeq(message_chat_id, cs.chats_searched)
              THEN [cs EXCEPT !.chats_to_search = insert0(@, message_chat_id)]
              ELSE cs
         ELSE cs

\* the handler of ChannelPrivateError without the pop
handle_channel_private_without_pop(cs, chat_id) ==
    [cs EXCEPT !.chats_not_searchable = Append(@, chat_id)]

\* the handler of ChannelPrivateError that drops the entry at the back
handle_channel_private_pops_back(cs, chat_id) ==
    [cs EXCEPT !.chats_not_searchable = Append(@, chat_id),
               !.chats_to_search = SubSeq(@, 1, Len(@) - 1)]

\* the handler of ChannelPrivateError that moves the chat to the back
handle_channel_private_to_back(cs, chat_id) ==
    [cs EXCEPT !.chats_not_searchable = Append(@, chat_id),
               !.chats_to_search = pop0(Append(@, chat_id))]

\* handle_chat, the handler of ChannelPrivateError: the crawl state afterwards
handle_channel_private(cs, chat_id) ==
    [cs EXCEPT !.chats_not_searchable = Append(@, chat_id),
               !.chats_to_search = pop0(@)]

\* the end of handle_chat that notes the chat as searched in every run
handle_chat_end_always_searched(cs, chat_id, max_date) ==
    [cs EXCEPT !.chats_searched = Append(@, chat_id),
               !.chats_to_search = pop0(@)]

\* the end of handle_chat that moves the chat to the back in every run
handle_chat_end_always_to_back(cs, chat_id, max_date) ==
    [cs EXCEPT !.chats_to_search = pop0(Append(@, chat_id))]

\* handle_chat, after the loop over the messages: the crawl state afterwards
handle_chat_end(cs, chat_id, max_date) ==
    IF max_date # None
    THEN [cs EXCEPT !.chats_searched = Append(@, chat_id),
                    !.chats_to_search = pop0(@)]
    ELSE [cs EXCEPT !.chats_to_search = pop0(Append(@, chat_id))]

----------------------------------------------------------------------------
(* crawler.py: KeywordSearchCrawler.  Its crawl states are kept in a file  *)
(* of their own and carry the keywords.                                    *)

\* KeywordSearchCrawler(keywords)
KeywordSearchCrawler(keywords) ==
    [class |-> "KeywordSearchCrawler", keywords |-> keywords]

\* KeywordSearchCrawler.retrieve_or_initialize_crawl_state: the index of
\* the crawl to be resumed
keyword_find_crawl_to_be_resumed(self, file, seed_chat_ids, min_date, max_date, label_message) ==
    LET matching == { i \in 1..Len(file) :
                        /\ crawl_matches(file[i], seed_chat_ids, min_date,
                                         max_date, ~label_message)
                        /\ str_of_list(file[i].keywords)
                              = str_of_list(self.keywords) }
    IN  IF matching = {} THEN NoIndex
        ELSE (CHOOSE i \in matching : \A j \in matching : i <= j) - 1

\* KeywordSearchCrawler.retrieve_or_initialize_crawl_state
keyword_retrieve_or_initialize_crawl_state(self, file, seed_chat_ids, min_date, max_date, label_message) ==
    LET i == keyword_find_crawl_to_be_resumed(self, file, seed_chat_ids,
                                              min_date, max_date, label_message)
    IN  IF i # NoIndex
        THEN resumed_crawl_state(file, i, min_date, max_date)
        ELSE [index |-> Len(file), seed_chats |-> seed_chat_ids,
              min_date |-> min_date, max_date |-> max_date,
              chats_to_search |-> seed_chat_ids, chats_searched |-> <<>>,
              chats_not_searchable |-> <<>>, finished |-> None,
              no_labeling_mode |-> ~label_message,
              keywords |-> self.keywords]

\* message_should_be_skipped that passes a message with all the keywords
keyword_message_should_be_skipped_all_keywords(self, cs, message, min_date, max_date) ==
    IF message_should_be_skipped(cs, message, min_date, max_date)
    THEN TRUE
    ELSE ~(\A i \in 1..Len(self.keywords) :
              contains(message.message, self.keywords[i]))

\* KeywordSearchCrawler.message_should_be_skipped
keyword_message_should_be_skipped(self, cs, message, min_date, max_date) ==
    IF message_should_be_skipped(cs, message, min_date, max_date)
    THEN TRUE
    ELSE ~(\E i \in 1..Len(self.keywords) :
              contains(message.message, self.keywords[i]))

\* handle_chat, "message_should_be_skipped = self.message_should_be_skipped":
\* the method of the class of the crawler
self_message_should_be_skipped(self, cs, message, min_date, max_date) ==
    IF self.class = "KeywordSearchCrawler"
    THEN keyword_message_should_be_skipped(self, cs, message, min_date, max_date)
    ELSE message_should_be_skipped(cs, message, min_date, max_date)

----------------------------------------------------------------------------
(* crawler.py: BinaryClassifierCrawler.  Its crawl states carry the ids of *)
(* the messages classified in the chat at the front of the queue,          *)
(* current_chat_classified_messages_ids, and classified_chat_until, a dict *)
(* from chats to message ids.  The dict is a function here; a crawl state  *)
(* without the key "classified_chat_until" has the empty dict (the code    *)
(* treats both alike).  The keys are str(chat_id) in the code, where they  *)
(* are written and where they are looked up.                               *)

\* BinaryClassifierCrawler(base_model, model_directory)
BinaryClassifierCrawler == [class |-> "BinaryClassifierCrawler"]

\* a call with more or fewer arguments than the method takes
TypeError == "TypeError: positional arguments"

\* the TypeError as the traceback shows it: with the line of the call
TypeErrorAt(line) ==
    CASE line = 512 -> "TypeError: store_crawl_state (crawler.py:512)"
      [] line = 535 -> "TypeError: store_crawl_state (crawler.py:535)"
      [] line = 542 -> "TypeError: store_crawl_state (crawler.py:542)"
      [] line = 556 -> "TypeError: store_crawl_state (crawler.py:556)"
      [] line = 935 -> "TypeError: store_crawl_state (crawler.py:935)"
      [] OTHER -> "TypeError: retrieve_or_initialize_crawl_state (crawler.py:893)"

\* classify_message_binary raises
ClassifierFailure == "Exception: classifier"

\* what a call of classify_message_binary gives: the label that is compared
\* with "irrelevant", or an exception
Classifications == {"relevant", "irrelevant", ClassifierFailure}

\* d[k] = v for a dict d
dict_set(d, k, v) ==
    [x \in (DOMAIN d) \cup {k} |-> IF x = k THEN v ELSE d[x]]

\* the dict {}
EmptyDict == << >>

\* BinaryClassifierCrawler.handle_chat, what runs when the controller calls
\* it: the method is no coroutine, super().handle_chat(...) only makes the
\* coroutine of the pass, and the statements after it run before the
\* controller awaits that coroutine.  The crawl state before the pass.
classifier_handle_chat(cs, chat_id) ==
    IF Len(cs.current_chat_classified_messages_ids) > 0
    THEN [cs EXCEPT
            !.classified_chat_until =
                dict_set(@, chat_id, cs.current_chat_classified_messages_ids[1]),
            !.current_chat_classified_messages_ids = << >>]
    ELSE cs

\* crawl_should_be_stopped that stops at a recorded id in every run
classifier_crawl_should_be_stopped_with_max_date(cs, message, chat_id, min_date, max_date) ==
    \/ crawl_should_be_stopped(cs, message, min_date, max_date)
    \/ /\ chat_id \in DOMAIN cs.classified_chat_until
       /\ message.id <= cs.classified_chat_until[chat_id]

\* BinaryClassifierCrawler.crawl_should_be_stopped; chat_id is
\* message.peer_id.channel_id
classifier_crawl_should_be_stopped(cs, message, chat_id, min_date, max_date) ==
    \/ crawl_should_be_stopped(cs, message, min_date, max_date)
    \/ /\ max_date = None
       /\ chat_id \in DOMAIN cs.classified_chat_until
       /\ message.id <= cs.classified_chat_until[chat_id]

\* message_should_be_skipped that classifies a message again
classifier_message_should_be_skipped_classifies_again(cs, message, min_date, max_date, classification) ==
    IF message_should_be_skipped(cs, message, min_date, max_date)
    THEN [result |-> "True", cs |-> cs, classified |-> FALSE]
    ELSE IF message.message = NoText
    THEN [result |-> "True", cs |-> cs, classified |-> FALSE]
    ELSE IF classification = ClassifierFailure
    THEN [result |-> ClassifierFailure, cs |-> cs, classified |-> TRUE]
    ELSE IF classification = "irrelevant"
    THEN [result |-> "True",
          cs |-> [cs EXCEPT !.current_chat_classified_messages_ids =
                               Append(@, message.id)],
          classified |-> TRUE]
    ELSE [result |-> "False", cs |-> cs, classified |-> TRUE]

\* BinaryClassifierCrawler.message_should_be_skipped with what the call of
\* classify_message_binary gives, if it is made: the result ("True",
\* "False" or the exception), the crawl state afterwards and whether the
\* classifier was called
classifier_message_should_be_skipped(cs, message, min_date, max_date, classification) ==
    IF message_should_be_skipped(cs, message, min_date, max_date)
    THEN [result |-> "True", cs |-> cs, classified |-> FALSE]
    ELSE IF \/ message.message = NoText
            \/ InSeq(message.id, cs.current_chat_classified_messages_ids)
    THEN [result |-> "True", cs |-> cs, classified |-> FALSE]
    ELSE IF classification = ClassifierFailure
    THEN [result |-> ClassifierFailure, cs |-> cs, classified |-> TRUE]
    ELSE IF classification = "irrelevant"
    THEN [result |-> "True",
          cs |-> [cs EXCEPT !.current_chat_classified_messages_ids =
                               Append(@, message.id)],
          classified |-> TRUE]
    ELSE [result |-> "False", cs |-> cs, classified |-> TRUE]

\* BinaryClassifierCrawler.store_crawl_state(status, message, crawl_state)
\* called with the positional arguments given: the exception raised ("" if
\* none), the crawl state and the JSON file afterwards.  handle_chat and
\* start_or_resume_crawl call it with the crawl state alone.
classifier_store_crawl_state(file, arguments) ==
    IF Len(arguments) # 3
    THEN [raised |-> TypeError, file |-> file, cs |-> arguments[Len(arguments)]]
    ELSE LET cs == [arguments[3] EXCEPT
                      !.current_chat_classified_messages_ids =
                          Append(@, arguments[2].id)]
         IN  [raised |-> "", file |-> store_crawl_state(file, cs), cs |-> cs]

----------------------------------------------------------------------------
(* The state machine *)

NoArgs ==
    [seed_chat_ids |-> <<>>, min_date |-> None, max_date |-> None,
     label_messages |-> FALSE]

\* the process ends without returning from crawl(): its memory is gone
ProcessGone(how) ==
    /\ pc' = how
    /\ args' = NoArgs
    /\ crawl_state' = NoCrawlState
    /\ crawl_to_be_resumed_index' = NoIndex
    /\ stop_check' = <<>>
    /\ no_new_messages' = 0
    /\ crawl_stopped' = 0
    /\ current_chat_id' = NoIndex
    /\ pos' = 0

\* no function was called by itself
NoCall == "<no call>"

\* call_args and call_result of the specifications of one function, before
\* the function is called
NoCallYet ==
    [status |-> NoCall, result |-> NoCall, classification |-> NoCall]

\* no second process was started
NoOtherRun ==
    [pc |-> "idle", pos |-> 0, before |-> {}, stored |-> {}, raised |-> ""]

Init ==
    /\ crawls = <<>>
    /\ db_messages = {}
    /\ db_skips = {}
    /\ db_message_topics = {}
    /\ db_message_misconceptions = {}
    /\ now = 0
    /\ raised = ""
    /\ call_args = NoCall
    /\ call_result = NoCall
    /\ pc = "idle"
    /\ args = NoArgs
    /\ crawl_state = NoCrawlState
    /\ crawl_to_be_resumed_index = NoIndex
    /\ stop_check = <<>>
    /\ no_new_messages = 0
    /\ crawl_stopped = 0
    /\ current_chat_id = NoIndex
    /\ pos = 0
    /\ runs = 0
    /\ crawler = BaselineCrawler
    /\ classifier_calls = <<>>
    /\ other_run = NoOtherRun

\* the process is inside start_or_resume_crawl
Running == pc \in {"loop", "chat", "final"}

\* the message the iterator is at
Message == fetched(posted_messages(current_chat_id)[pos], now)

MessagesLeft == pos <= Len(posted_messages(current_chat_id))

DB ==
    [messages |-> db_messages, skips |-> db_skips,
     topics |-> db_message_topics,
     misconceptions |-> db_message_misconceptions]

\* CrawlController.crawl: a process is started, looks up the crawl state
\* and enters start_or_resume_crawl
Crawl(a) ==
    /\ ~Running
    /\ runs < MaxRuns
    /\ runs' = runs + 1
    /\ args' = a
    /\ crawl_to_be_resumed_index' =
          find_crawl_to_be_resumed(crawls, a.seed_chat_ids, a.min_date,
                                   a.max_date, a.label_messages)
    /\ crawl_state' =
          retrieve_or_initialize_crawl_state(crawls, a.seed_chat_ids,
                                             a.min_date, a.max_date,
                                             a.label_messages)
    /\ stop_check' = <<>>
    /\ no_new_messages' = 0
    /\ crawl_stopped' = 0
    /\ current_chat_id' = NoIndex
    /\ pos' = 0
    /\ pc' = "loop"
    /\ raised' = ""
    /\ crawler' = BaselineCrawler
    /\ UNCHANGED <<crawls, db_messages, db_skips, db_message_topics,
                   db_message_misconceptions, now>>
    /\ UNCHANGED <<call_args, call_result>>
    /\ UNCHANGED <<classifier_calls, other_run>>

\* start_or_resume_crawl, the loop condition fails or the cycle check breaks
WhileExit ==
    /\ pc = "loop"
    /\ \/ /\ Len(crawl_state.chats_to_search) = 0
          /\ UNCHANGED <<no_new_messages, current_chat_id>>
       \/ /\ Len(crawl_state.chats_to_search) > 0
          /\ InSeq(Head(crawl_state.chats_to_search), stop_check)
          /\ current_chat_id' = Head(crawl_state.chats_to_search)
          /\ no_new_messages' = 1
    /\ pc' = "final"
    /\ UNCHANGED <<crawls, db_messages, db_skips, db_message_topics,
                   db_message_misconceptions, now, raised, args, crawl_state,
                   crawl_to_be_resumed_index, stop_check, crawl_stopped,
                   pos, runs>>
    /\ UNCHANGED <<call_args, call_result>>
    /\ UNCHANGED <<crawler, classifier_calls, other_run>>

\* start_or_resume_crawl calls handle_chat for the chat at the front
CallHandleChat ==
    /\ pc = "loop"
    /\ Len(crawl_state.chats_to_search) > 0
    /\ ~InSeq(Head(crawl_state.chats_to_search), stop_check)
    /\ current_chat_id' = Head(crawl_state.chats_to_search)
    /\ pos' = 1
    /\ pc' = "chat"
    /\ UNCHANGED <<crawls, db_messages, db_skips, db_message_topics,
                   db_message_misconceptions, now, raised, args, crawl_state,
                   crawl_to_be_resumed_index, stop_check, no_new_messages,
                   crawl_stopped, runs>>
    /\ UNCHANGED <<call_args, call_result>>
    /\ UNCHANGED <<crawler, classifier_calls, other_run>>

\* handle_chat returned 0: back in the loop of start_or_resume_crawl
Returned0 ==
    /\ stop_check' = Append(stop_check, current_chat_id)
    /\ pc' = "loop"

\* handle_chat: the filter skips the fetched message ("continue")
SkipMessage ==
    /\ pc = "chat"
    /\ MessagesLeft
    /\ ~crawl_should_be_stopped(crawl_state, Message, crawl_state.min_date,
                                crawl_state.max_date)
    /\ self_message_should_be_skipped(crawler, crawl_state, Message,
                                      crawl_state.min_date,
                                      crawl_state.max_date)
    /\ pos' = pos + 1
    /\ UNCHANGED <<crawls, db_messages, db_skips, db_message_topics,
                   db_message_misconceptions, now, raised, pc, args, crawl_state,
                   crawl_to_be_resumed_index, stop_check, no_new_messages,
                   crawl_stopped, current_chat_id, runs>>
    /\ UNCHANGED <<call_args, call_result>>
    /\ UNCHANGED <<crawler, classifier_calls, other_run>>

\* handle_chat: the fetched message is passed to the message handler
HandleMessage(script) ==
    /\ pc = "chat"
    /\ MessagesLeft
    /\ crawl_state.no_labeling_mode => script = NoScript
    /\ ~crawl_should_be_stopped(crawl_state, Message, crawl_state.min_date,
                                crawl_state.max_date)
    /\ ~self_message_should_be_skipped(crawler, crawl_state, Message,
                                       crawl_state.min_date,
                                       crawl_state.max_date)
    /\ \E m \in {from_telethon_message(current_chat_id, Message, FALSE, now)} :
       \E handled \in {IF crawl_state.no_labeling_mode
                        THEN no_labeling_handle_message(DB, m)
                        ELSE labeling_handle_message(DB, m, script)} :
           /\ db_messages' = handled.d.messages
           /\ db_skips' = handled.d.skips
           /\ db_message_topics' = handled.d.topics
           /\ db_message_misconceptions' = handled.d.misconceptions
           /\ CASE handled.status \in Raises ->
                     \* the exception leaves handle_chat and crawl()
                     /\ ProcessGone("aborted")
                     /\ raised' = handled.status
                     /\ UNCHANGED crawls
                [] ~crawl_state.no_labeling_mode
                   /\ handled.status = "stop crawl" ->
                     /\ crawls' = store_crawl_state(crawls, crawl_state)
                     /\ crawl_stopped' = 1
                     /\ pc' = "final"
                     /\ UNCHANGED <<args, crawl_state, raised,
                                    crawl_to_be_resumed_index, stop_check,
                                    no_new_messages, current_chat_id, pos>>
                [] OTHER ->
                     /\ crawl_state' =
                           IF crawl_state.no_labeling_mode
                           THEN crawl_state
                           ELSE handle_status(crawl_state, handled.status,
                                              m.chat, current_chat_id)
                     /\ crawls' = store_crawl_state(crawls, crawl_state')
                     /\ pos' = pos + 1
                     /\ UNCHANGED <<pc, args, crawl_to_be_resumed_index,
                                    stop_check, no_new_messages, raised,
                                    crawl_stopped, current_chat_id>>
    /\ UNCHANGED <<now, runs>>
    /\ UNCHANGED <<call_args, call_result>>
    /\ UNCHANGED <<crawler, classifier_calls, other_run>>

\* handle_chat: fetching raises ChannelPrivateError; the platform refuses
\* the first request for the history of a chat that is private
ChannelPrivate ==
    /\ pc = "chat"
    /\ pos = 1
    /\ crawl_state' = handle_channel_private(crawl_state, current_chat_id)
    /\ crawls' = store_crawl_state(crawls, crawl_state')
    /\ Returned0
    /\ UNCHANGED <<db_messages, db_skips, db_message_topics,
                   db_message_misconceptions, now, raised, args, crawl_to_be_resumed_index,
                   no_new_messages, crawl_stopped, current_chat_id, pos,
                   runs>>
    /\ UNCHANGED <<call_args, call_result>>
    /\ UNCHANGED <<crawler, classifier_calls, other_run>>

\* handle_chat: the iteration ends (no message left, or "break")
ChatEnd ==
    /\ pc = "chat"
    /\ \/ ~MessagesLeft
       \/ /\ MessagesLeft
          /\ crawl_should_be_stopped(crawl_state, Message,
                                     crawl_state.min_date, crawl_state.max_date)
    /\ crawl_state' = handle_chat_end(crawl_state, current_chat_id,
                                      crawl_state.max_date)
    /\ crawls' = store_crawl_state(crawls, crawl_state')
    /\ Returned0
    /\ UNCHANGED <<db_messages, db_skips, db_message_topics,
                   db_message_misconceptions, now, raised, args, crawl_to_be_resumed_index,
                   no_new_messages, crawl_stopped, current_chat_id, pos,
                   runs>>
    /\ UNCHANGED <<call_args, call_result>>
    /\ UNCHANGED <<crawler, classifier_calls, other_run>>

\* the final store left out
final_store_left_out(file, cs) == file

\* start_or_resume_crawl, the last statement: store the crawl state
final_store(file, cs) == store_crawl_state(file, cs)

\* the crawl marked as finished however the loop was left
mark_finished_always(cs, no_new, time) ==
    [cs EXCEPT !.finished = str(datetime(time))]

\* start_or_resume_crawl after the loop: the crawl is marked as finished
\* if the queue is empty or the cycle check has ended the loop
mark_finished(cs, no_new, time) ==
    IF Len(cs.chats_to_search) = 0 \/ no_new = 1
    THEN [cs EXCEPT !.finished = str(datetime(time))]
    ELSE cs

\* start_or_resume_crawl after the loop: mark as finished, store, return
FinalStore ==
    /\ pc = "final"
    /\ crawl_state' = mark_finished(crawl_state, no_new_messages, now)
    /\ crawls' = final_store(crawls, crawl_state')
    /\ pc' = "returned"
    /\ UNCHANGED <<db_messages, db_skips, db_message_topics,
                   db_message_misconceptions, now, raised, args, crawl_to_be_resumed_index,
                   stop_check, no_new_messages, crawl_stopped,
                   current_chat_id, pos, runs>>
    /\ UNCHANGED <<call_args, call_result>>
    /\ UNCHANGED <<crawler, classifier_calls, other_run>>

\* the process is killed (power loss, Ctrl-C) while it waits for the next
\* message, the suspension point of handle_chat
Kill ==
    /\ pc = "chat"
    /\ ProcessGone("killed")
    /\ UNCHANGED <<crawls, db_messages, db_skips, db_message_topics,
                   db_message_misconceptions, now, raised, runs>>
    /\ UNCHANGED <<call_args, call_result>>
    /\ UNCHANGED <<crawler, classifier_calls, other_run>>

\* time passes between two calls of crawl()
Tick ==
    /\ ~Running
    /\ now < MaxNow
    /\ now' = now + 1
    /\ UNCHANGED <<crawls, db_messages, db_skips, db_message_topics,
                   db_message_misconceptions, raised, pc, args, crawl_state,
                   crawl_to_be_resumed_index, stop_check, no_new_messages,
                   crawl_stopped, current_chat_id, pos, runs>>
    /\ UNCHANGED <<call_args, call_result>>
    /\ UNCHANGED <<crawler, classifier_calls, other_run>>

Next ==
    \/ \E a \in Args : Crawl(a)
    \/ WhileExit
    \/ CallHandleChat
    \/ SkipMessage
    \/ \E script \in UserScripts : HandleMessage(script)
    \/ ChannelPrivate
    \/ ChatEnd
    \/ FinalStore
    \/ Kill

Spec == Init /\ [][Next]_vars

\* the steps the process takes by itself once crawl() was called
Step ==
    \/ WhileExit
    \/ CallHandleChat
    \/ SkipMessage
    \/ \E script \in UserScripts : HandleMessage(script)
    \/ ChatEnd
    \/ FinalStore

NextNoKill ==
    \/ \E a \in Args : Crawl(a)
    \/ Step
    \/ ChannelPrivate

\* a process that is not killed keeps running: every step of it is
\* synchronous code or a fetch from a finite message sequence
FairSpec == Init /\ [][NextNoKill]_vars /\ WF_vars(Step)

----------------------------------------------------------------------------
(* The labeling run over both chats: the user can stop the crawl in the    *)
(* second chat, when the first one has moved to the back of the queue.     *)

LabelingNext ==
    \/ \E a \in { [seed_chat_ids |-> <<1, 2>>, min_date |-> None,
                   max_date |-> None, label_messages |-> TRUE] } : Crawl(a)
    \/ WhileExit
    \/ CallHandleChat
    \/ SkipMessage
    \/ \E script \in UserScripts : HandleMessage(script)
    \/ ChannelPrivate
    \/ ChatEnd
    \/ FinalStore
    \/ Kill

LabelingSpec == Init /\ [][LabelingNext]_vars

----------------------------------------------------------------------------
(* The message handlers over the time: crawls without dates, one with      *)
(* each handler, and the clock moves between them.  (Spec holds the clock  *)
(* still: no step of the crawl reads a time stamp or a counter.)           *)

HandlerNext ==
    \/ \E a \in { [seed_chat_ids |-> <<1, 2>>, min_date |-> None,
                   max_date |-> None, label_messages |-> FALSE],
                  [seed_chat_ids |-> <<2>>, min_date |-> None,
                   max_date |-> None, label_messages |-> TRUE] } : Crawl(a)
    \/ WhileExit
    \/ CallHandleChat
    \/ SkipMessage
    \/ \E script \in UserScripts : HandleMessage(script)
    \/ ChannelPrivate
    \/ ChatEnd
    \/ FinalStore
    \/ Kill
    \/ Tick

HandlerSpec == Init /\ [][HandlerNext]_vars

----------------------------------------------------------------------------
(* The date window: crawls whose minimum or maximum date is the date of a  *)
(* message, with each handler.  With the minimum date 3, chat 1 has a      *)
(* message dated at the minimum date and a message without text before it. *)

DateArgs ==
    { [seed_chat_ids |-> <<1, 2>>, min_date |-> datetime(3),
       max_date |-> datetime(3), label_messages |-> FALSE],
      [seed_chat_ids |-> <<2, 1>>, min_date |-> datetime(2),
       max_date |-> None, label_messages |-> FALSE],
      [seed_chat_ids |-> <<1>>, min_date |-> datetime(3),
       max_date |-> datetime(3), label_messages |-> TRUE] }

DateNext ==
    \/ \E a \in DateArgs : Crawl(a)
    \/ WhileExit
    \/ CallHandleChat
    \/ SkipMessage
    \/ \E script \in UserScripts : HandleMessage(script)
    \/ ChannelPrivate
    \/ ChatEnd
    \/ FinalStore
    \/ Kill

DateSpec == Init /\ [][DateNext]_vars

----------------------------------------------------------------------------
(* TelegramMessage.duplicate_exists by itself: it is called with a message *)
(* on a message table; hash is the primary key of the table and is the     *)
(* hash of the content of the row.                                         *)

\* number of rows of the message table before the calls
MaxRows == 2

\* what a message or a row may hold
MessageValues ==
    { [chat |-> c, message_id |-> i, content |-> t, hash |-> get_hash(t),
       creation_date |-> 1, last_retrieved |-> f.time, views |-> f.views,
       forwards |-> f.forwards, url |-> f.url] :
        c \in Chats, i \in 1..2, t \in {"a", "b", "c", "d"},
        f \in { [time |-> 0, views |-> 0, forwards |-> 0, url |-> NoUrl],
                [time |-> 1, views |-> 10, forwards |-> 1,
                 url |-> "example.org"] } }

RECURSIVE TablesOfAtMost(_)

\* the tables of at most n rows, no two rows with the same hash
TablesOfAtMost(n) ==
    IF n = 0 THEN { {} }
    ELSE LET smaller == TablesOfAtMost(n - 1)
         IN  smaller
             \cup { x[1] \cup {x[2]} :
                      x \in { y \in smaller \X MessageValues :
                                \A r \in y[1] : r.hash # y[2].hash } }

MessageTables == TablesOfAtMost(MaxRows)

DuplicateInit ==
    /\ db_messages \in MessageTables
    /\ crawls = <<>>
    /\ db_skips = {}
    /\ db_message_topics = {}
    /\ db_message_misconceptions = {}
    /\ now = 0
    /\ raised = ""
    /\ call_args = NoCall
    /\ call_result = NoCall
    /\ pc = "idle"
    /\ args = NoArgs
    /\ crawl_state = NoCrawlState
    /\ crawl_to_be_resumed_index = NoIndex
    /\ stop_check = <<>>
    /\ no_new_messages = 0
    /\ crawl_stopped = 0
    /\ current_chat_id = NoIndex
    /\ pos = 0
    /\ runs = 0
    /\ crawler = BaselineCrawler
    /\ classifier_calls = <<>>
    /\ other_run = NoOtherRun

\* m.duplicate_exists() is called
DuplicateExists(m) ==
    /\ call_args' = m
    /\ call_result' = duplicate_exists(db_messages, m).result
    /\ db_messages' = duplicate_exists(db_messages, m).table
    /\ UNCHANGED <<crawls, db_skips, db_message_topics,
                   db_message_misconceptions, now, raised, pc, args,
                   crawl_state, crawl_to_be_resumed_index, stop_check,
                   no_new_messages, crawl_stopped, current_chat_id, pos, runs>>
    /\ UNCHANGED <<crawler, classifier_calls, other_run>>

DuplicateNext == \E m \in MessageValues : DuplicateExists(m)

DuplicateSpec == DuplicateInit /\ [][DuplicateNext]_vars

----------------------------------------------------------------------------
(* Crawls of the KeywordSearchCrawler: `crawls' is the file of its crawl   *)
(* states.  The keywords are in upper and lower case, one is part of       *)
(* another one, and the list may be empty.                                 *)

\* CrawlController(KeywordSearchCrawler(keywords)).crawl
KeywordCrawl(a, keywords) ==
    /\ ~Running
    /\ runs < MaxRuns
    /\ runs' = runs + 1
    /\ args' = a
    /\ crawler' = KeywordSearchCrawler(keywords)
    /\ crawl_to_be_resumed_index' =
          keyword_find_crawl_to_be_resumed(crawler', crawls, a.seed_chat_ids,
                                           a.min_date, a.max_date,
                                           a.label_messages)
    /\ crawl_state' =
          keyword_retrieve_or_initialize_crawl_state(
              crawler', crawls, a.seed_chat_ids, a.min_date, a.max_date,
              a.label_messages)
    /\ stop_check' = <<>>
    /\ no_new_messages' = 0
    /\ crawl_stopped' = 0
    /\ current_chat_id' = NoIndex
    /\ pos' = 0
    /\ pc' = "loop"
    /\ raised' = ""
    /\ UNCHANGED <<crawls, db_messages, db_skips, db_message_topics,
                   db_message_misconceptions, now>>
    /\ UNCHANGED <<call_args, call_result>>
    /\ UNCHANGED <<classifier_calls, other_run>>

KeywordNext ==
    \/ \E a \in { [seed_chat_ids |-> <<KeywordChat, 1>>, min_date |-> None,
                   max_date |-> None, label_messages |-> FALSE],
                  [seed_chat_ids |-> <<KeywordChat>>,
                   min_date |-> datetime(2), max_date |-> datetime(4),
                   label_messages |-> TRUE] } :
       \E keywords \in { << >>, <<"ab">>, <<"b", "ab">>, <<"B">> } :
          KeywordCrawl(a, keywords)
    \/ WhileExit
    \/ CallHandleChat
    \/ SkipMessage
    \/ \E script \in UserScripts : HandleMessage(script)
    \/ ChannelPrivate
    \/ ChatEnd
    \/ FinalStore
    \/ Kill

KeywordSpec == Init /\ [][KeywordNext]_vars

----------------------------------------------------------------------------
(* Crawls of the BinaryClassifierCrawler.  crawl() cannot look up a crawl  *)
(* state for it: the controller passes four arguments to a method of three *)
(* parameters.  start_or_resume_crawl is called with a crawl state of the  *)
(* form the class keeps: nothing classified yet, or ids and dict as a pass *)
(* leaves them.                                                            *)

\* a crawl state of the BinaryClassifierCrawler
classifier_crawl_state(seed_chat_ids, max_date, label_message, ids, until) ==
    [index |-> 0, seed_chats |-> seed_chat_ids,
     min_date |-> None, max_date |-> max_date,
     chats_to_search |-> seed_chat_ids, chats_searched |-> <<>>,
     chats_not_searchable |-> <<>>, finished |-> None,
     no_labeling_mode |-> ~label_message,
     base_model |-> "base model", model_directory |-> "model directory",
     current_chat_classified_messages_ids |-> ids,
     classified_chat_until |-> until]

\* CrawlController(BinaryClassifierCrawler(...)).crawl: the call of
\* retrieve_or_initialize_crawl_state raises TypeError
ClassifierCrawl(a) ==
    /\ ~Running
    /\ runs < MaxRuns
    /\ runs' = runs + 1
    /\ crawler' = BinaryClassifierCrawler
    /\ ProcessGone("aborted")
    /\ raised' = TypeErrorAt(893)
    /\ UNCHANGED <<crawls, db_messages, db_skips, db_message_topics,
                   db_message_misconceptions, now>>
    /\ UNCHANGED <<call_args, call_result>>
    /\ UNCHANGED <<classifier_calls, other_run>>

\* CrawlController(BinaryClassifierCrawler(...)).start_or_resume_crawl(cs);
\* the file of this crawler stays empty, so no stored state competes with cs
StartOrResumeCrawl(cs) ==
    /\ ~Running
    /\ runs < MaxRuns
    /\ runs' = runs + 1
    /\ crawler' = BinaryClassifierCrawler
    /\ args' = NoArgs
    /\ crawl_to_be_resumed_index' = NoIndex
    /\ crawl_state' = cs
    /\ stop_check' = <<>>
    /\ no_new_messages' = 0
    /\ crawl_stopped' = 0
    /\ current_chat_id' = NoIndex
    /\ pos' = 0
    /\ pc' = "loop"
    /\ raised' = ""
    /\ UNCHANGED <<crawls, db_messages, db_skips, db_message_topics,
                   db_message_misconceptions, now>>
    /\ UNCHANGED <<call_args, call_result>>
    /\ UNCHANGED <<classifier_calls, other_run>>

\* the process runs a BinaryClassifierCrawler and is in the pass over a chat
InClassifierPass == pc = "chat" /\ crawler.class = "BinaryClassifierCrawler"

\* the crawler's crawl_should_be_stopped at the fetched message
ClassifierStops ==
    classifier_crawl_should_be_stopped(crawl_state, Message, current_chat_id,
                                       crawl_state.min_date,
                                       crawl_state.max_date)

\* the crawler's message_should_be_skipped at the fetched message
ClassifierSkips(classification) ==
    classifier_message_should_be_skipped(crawl_state, Message,
                                         crawl_state.min_date,
                                         crawl_state.max_date, classification)

\* the call of classify_message_binary for the fetched message and what
\* it gives
ClassifierCall(classification) ==
    [run |-> runs, chat |-> current_chat_id, id |-> Message.id,
     result |-> classification,
     crawl |-> <<crawl_state.seed_chats, crawl_state.min_date,
                 crawl_state.max_date, crawl_state.no_labeling_mode>>]

\* self.store_crawl_state(crawl_state) of a BinaryClassifierCrawler: the
\* exception ends the process, else the process goes on as given
ClassifierStore(cs, line, GoOn) ==
    \E stored \in {classifier_store_crawl_state(crawls, <<cs>>)} :
       /\ crawls' = stored.file
       /\ IF stored.raised # ""
          THEN /\ ProcessGone("aborted")
               /\ raised' = TypeErrorAt(line)
          ELSE /\ crawl_state' = stored.cs
               /\ raised' = raised
               /\ GoOn

\* start_or_resume_crawl calls handle_chat of the BinaryClassifierCrawler
ClassifierCallHandleChat ==
    /\ pc = "loop"
    /\ crawler.class = "BinaryClassifierCrawler"
    /\ Len(crawl_state.chats_to_search) > 0
    /\ ~InSeq(Head(crawl_state.chats_to_search), stop_check)
    /\ current_chat_id' = Head(crawl_state.chats_to_search)
    /\ crawl_state' = classifier_handle_chat(crawl_state,
                                             Head(crawl_state.chats_to_search))
    /\ pos' = 1
    /\ pc' = "chat"
    /\ UNCHANGED <<crawls, db_messages, db_skips, db_message_topics,
                   db_message_misconceptions, now, raised, args,
                   crawl_to_be_resumed_index, stop_check, no_new_messages,
                   crawl_stopped, runs>>
    /\ UNCHANGED <<call_args, call_result>>
    /\ UNCHANGED <<crawler, classifier_calls, other_run>>

\* the pass of the BinaryClassifierCrawler: the filter skips the message
ClassifierSkipMessage(classification) ==
    /\ InClassifierPass
    /\ MessagesLeft
    /\ ~ClassifierStops
    /\ \E skip \in {ClassifierSkips(classification)} :
          /\ skip.result = "True"
          /\ crawl_state' = skip.cs
          /\ classifier_calls' = IF skip.classified
                                 THEN Append(classifier_calls, ClassifierCall(classification))
                                 ELSE classifier_calls
    /\ pos' = pos + 1
    /\ UNCHANGED <<crawls, db_messages, db_skips, db_message_topics,
                   db_message_misconceptions, now, raised, pc, args,
                   crawl_to_be_resumed_index, stop_check, no_new_messages,
                   crawl_stopped, current_chat_id, runs>>
    /\ UNCHANGED <<call_args, call_result>>
    /\ UNCHANGED <<crawler, other_run>>

\* the pass of the BinaryClassifierCrawler: classify_message_binary raises
\* in the filter; nothing catches the exception
ClassifierRaises(classification) ==
    /\ InClassifierPass
    /\ MessagesLeft
    /\ ~ClassifierStops
    /\ ClassifierSkips(classification).result = ClassifierFailure
    /\ classifier_calls' = Append(classifier_calls, ClassifierCall(classification))
    /\ ProcessGone("aborted")
    /\ raised' = ClassifierFailure
    /\ UNCHANGED <<crawls, db_messages, db_skips, db_message_topics,
                   db_message_misconceptions, now, runs>>
    /\ UNCHANGED <<call_args, call_result>>
    /\ UNCHANGED <<crawler, other_run>>

\* the pass of the BinaryClassifierCrawler: the message is classified as
\* relevant and passed to the message handler, then the state is stored
ClassifierHandleMessage(classification, script) ==
    /\ InClassifierPass
    /\ MessagesLeft
    /\ crawl_state.no_labeling_mode => script = NoScript
    /\ ~ClassifierStops
    /\ ClassifierSkips(classification).result = "False"
    /\ classifier_calls' = Append(classifier_calls, ClassifierCall(classification))
    /\ \E m \in {from_telethon_message(current_chat_id, Message, FALSE, now)} :
       \E handled \in {IF crawl_state.no_labeling_mode
                        THEN no_labeling_handle_message(DB, m)
                        ELSE labeling_handle_message(DB, m, script)} :
           /\ db_messages' = handled.d.messages
           /\ db_skips' = handled.d.skips
           /\ db_message_topics' = handled.d.topics
           /\ db_message_misconceptions' = handled.d.misconceptions
           /\ CASE handled.status \in Raises ->
                     /\ ProcessGone("aborted")
                     /\ raised' = handled.status
                     /\ UNCHANGED crawls
                [] ~crawl_state.no_labeling_mode
                   /\ handled.status = "stop crawl" ->
                     ClassifierStore(
                        crawl_state, 512,
                        /\ crawl_stopped' = 1
                        /\ pc' = "final"
                        /\ UNCHANGED <<args, crawl_to_be_resumed_index,
                                       stop_check, no_new_messages,
                                       current_chat_id, pos>>)
                [] OTHER ->
                     ClassifierStore(
                        IF crawl_state.no_labeling_mode
                        THEN crawl_state
                        ELSE handle_status(crawl_state, handled.status,
                                           m.chat, current_chat_id),
                        535,
                        /\ pos' = pos + 1
                        /\ UNCHANGED <<pc, args, crawl_to_be_resumed_index,
                                       stop_check, no_new_messages,
                                       crawl_stopped, current_chat_id>>)
    /\ UNCHANGED <<now, runs>>
    /\ UNCHANGED <<call_args, call_result>>
    /\ UNCHANGED <<crawler, other_run>>

\* the pass of the BinaryClassifierCrawler: ChannelPrivateError
ClassifierChannelPrivate ==
    /\ InClassifierPass
    /\ pos = 1
    /\ ClassifierStore(handle_channel_private(crawl_state, current_chat_id),
                       542,
                       /\ Returned0
                       /\ UNCHANGED <<args, crawl_to_be_resumed_index,
                                      no_new_messages, crawl_stopped,
                                      current_chat_id, pos>>)
    /\ UNCHANGED <<db_messages, db_skips, db_message_topics,
                   db_message_misconceptions, now, runs>>
    /\ UNCHANGED <<call_args, call_result>>
    /\ UNCHANGED <<crawler, classifier_calls, other_run>>

\* the pass of the BinaryClassifierCrawler ends
ClassifierChatEnd ==
    /\ InClassifierPass
    /\ \/ ~MessagesLeft
       \/ MessagesLeft /\ ClassifierStops
    /\ ClassifierStore(handle_chat_end(crawl_state, current_chat_id,
                                       crawl_state.max_date),
                       556,
                       /\ Returned0
                       /\ UNCHANGED <<args, crawl_to_be_resumed_index,
                                      no_new_messages, crawl_stopped,
                                      current_chat_id, pos>>)
    /\ UNCHANGED <<db_messages, db_skips, db_message_topics,
                   db_message_misconceptions, now, runs>>
    /\ UNCHANGED <<call_args, call_result>>
    /\ UNCHANGED <<crawler, classifier_calls, other_run>>

\* start_or_resume_crawl of the BinaryClassifierCrawler after the loop
ClassifierFinalStore ==
    /\ pc = "final"
    /\ crawler.class = "BinaryClassifierCrawler"
    /\ ClassifierStore(mark_finished(crawl_state, no_new_messages, now),
                       935,
                       /\ pc' = "returned"
                       /\ UNCHANGED <<args, crawl_to_be_resumed_index,
                                      stop_check, no_new_messages,
                                      crawl_stopped, current_chat_id, pos>>)
    /\ UNCHANGED <<db_messages, db_skips, db_message_topics,
                   db_message_misconceptions, now, runs>>
    /\ UNCHANGED <<call_args, call_result>>
    /\ UNCHANGED <<crawler, classifier_calls, other_run>>

ClassifierNext ==
    \/ \E a \in Args : ClassifierCrawl(a)
    \/ \E cs \in { classifier_crawl_state(seed_chat_ids, max_date, FALSE,
                                            ids, until) :
                      seed_chat_ids \in { << >>, <<1>>, <<2>> },
                      max_date \in { None, datetime(3) },
                      ids \in { << >>, <<3>> },
                      until \in { EmptyDict, dict_set(EmptyDict, 1, 2),
                                  dict_set(dict_set(EmptyDict, 1, 2), 2, 2) } }
                  \cup { classifier_crawl_state(<<1>>, None, TRUE, << >>,
                                                EmptyDict) } :
          StartOrResumeCrawl(cs)
    \/ WhileExit
    \/ ClassifierCallHandleChat
    \/ \E classification \in Classifications :
          ClassifierSkipMessage(classification)
    \/ \E classification \in Classifications :
          ClassifierRaises(classification)
    \/ \E classification \in Classifications : \E script \in UserScripts :
          ClassifierHandleMessage(classification, script)
    \/ ClassifierChannelPrivate
    \/ ClassifierChatEnd
    \/ ClassifierFinalStore
    \/ Kill

ClassifierSpec == Init /\ [][ClassifierNext]_vars

----------------------------------------------------------------------------
(* BinaryClassifierCrawler.message_should_be_skipped by itself: it is      *)
(* called with a crawl state, a message and a classifier that gives the    *)
(* classification.                                                         *)

FilterInit ==
    /\ call_args = NoCallYet
    /\ call_result = NoCallYet
    /\ crawls = <<>>
    /\ db_messages = {}
    /\ db_skips = {}
    /\ db_message_topics = {}
    /\ db_message_misconceptions = {}
    /\ now = 0
    /\ raised = ""
    /\ pc = "idle"
    /\ args = NoArgs
    /\ crawl_state = NoCrawlState
    /\ crawl_to_be_resumed_index = NoIndex
    /\ stop_check = <<>>
    /\ no_new_messages = 0
    /\ crawl_stopped = 0
    /\ current_chat_id = NoIndex
    /\ pos = 0
    /\ runs = 0
    /\ crawler = BinaryClassifierCrawler
    /\ classifier_calls = <<>>
    /\ other_run = NoOtherRun

\* crawler.message_should_be_skipped(cs, message, min_date, max_date)
CallMessageShouldBeSkipped(cs, message, classification) ==
    /\ call_args' = [crawl_state |-> cs, message |-> message,
                     classification |-> classification]
    /\ call_result' = classifier_message_should_be_skipped(
                          cs, message, cs.min_date, cs.max_date, classification)
    /\ UNCHANGED <<crawls, db_messages, db_skips, db_message_topics,
                   db_message_misconceptions, now, raised, pc, args,
                   crawl_state, crawl_to_be_resumed_index, stop_check,
                   no_new_messages, crawl_stopped, current_chat_id, pos, runs>>
    /\ UNCHANGED <<crawler, classifier_calls, other_run>>

FilterNext ==
    \E cs \in { classifier_crawl_state(<<1>>, max_date, TRUE, ids, EmptyDict) :
                  max_date \in { None, datetime(3) },
                  ids \in { << >>, <<3>>, <<3, 1>>, <<2>> } } :
    \E chat_id \in Chats :
       \E i \in 1..Len(posted_messages(chat_id)) :
          \E classification \in Classifications :
             CallMessageShouldBeSkipped(cs, iter_messages(chat_id, 0)[i],
                                        classification)

FilterSpec == FilterInit /\ [][FilterNext]_vars

----------------------------------------------------------------------------
(* label_and_store_message called by itself, on a message that may be      *)
(* stored already.  The database before the first call is an input: the    *)
(* messages of chat 1 with a text, each with any labels of a topic, of a   *)
(* misconception and of "no misconception", as data_export.py and          *)
(* archive.py read them.                                                   *)

\* the messages that are labeled
RelabelMessages ==
    { m \in { from_telethon_message(1, iter_messages(1, 0)[i], FALSE, 0) :
                i \in 1..Len(posted_messages(1)) } :
        m.content \notin {"", NoText} }

\* a MessageMisconception row
MessageMisconception(m, misconception) ==
    [chat |-> m.chat, message_hash |-> m.hash, misconception |-> misconception]

\* the topics of the MessageTopic rows of a message
topics_of(d, m) ==
    { r.topic : r \in { x \in d.topics : x.message_hash = m.hash } }

\* the misconceptions of the MessageMisconception rows of a message
misconceptions_of(d, m) ==
    { r.misconception :
        r \in { x \in d.misconceptions : x.message_hash = m.hash } }

\* the databases before the first call: any labels, each of a stored message
RelabelInputs ==
    { d \in
        { [messages |-> stored, skips |-> {}, topics |-> t,
           misconceptions |-> x] :
            stored \in SUBSET RelabelMessages,
            t \in SUBSET { [chat |-> m.chat, message_hash |-> m.hash,
                            topic |-> topic] :
                             m \in RelabelMessages, topic \in Topics },
            x \in SUBSET { MessageMisconception(m, misconception) :
                             m \in RelabelMessages,
                             misconception \in Misconceptions
                                                \cup {NoMisconception} } } :
        \A r \in d.topics \cup d.misconceptions :
           \E m \in d.messages : m.hash = r.message_hash }

RelabelInit ==
    /\ \E d \in RelabelInputs :
          /\ db_messages = d.messages
          /\ db_skips = d.skips
          /\ db_message_topics = d.topics
          /\ db_message_misconceptions = d.misconceptions
    /\ call_args = NoCallYet
    /\ call_result = NoCallYet
    /\ crawls = <<>>
    /\ now = 0
    /\ raised = ""
    /\ pc = "idle"
    /\ args = NoArgs
    /\ crawl_state = NoCrawlState
    /\ crawl_to_be_resumed_index = NoIndex
    /\ stop_check = <<>>
    /\ no_new_messages = 0
    /\ crawl_stopped = 0
    /\ current_chat_id = NoIndex
    /\ pos = 0
    /\ runs = 0
    /\ crawler = BaselineCrawler
    /\ classifier_calls = <<>>
    /\ other_run = NoOtherRun

\* handler.label_and_store_message() with handler.message = m
LabelAndStoreMessage(m, script) ==
    /\ call_args' = [message |-> m, script |-> script, before |-> DB]
    /\ \E labeled \in {label_and_store_message(DB, m, script)} :
          /\ call_result' = labeled
          /\ db_messages' = labeled.d.messages
          /\ db_skips' = labeled.d.skips
          /\ db_message_topics' = labeled.d.topics
          /\ db_message_misconceptions' = labeled.d.misconceptions
    /\ UNCHANGED <<crawls, now, raised, pc, args, crawl_state,
                   crawl_to_be_resumed_index, stop_check, no_new_messages,
                   crawl_stopped, current_chat_id, pos, runs>>
    /\ UNCHANGED <<crawler, classifier_calls, other_run>>

RelabelNext ==
    \E m \in RelabelMessages : \E script \in UserScripts :
       LabelAndStoreMessage(m, script)

RelabelSpec == RelabelInit /\ [][RelabelNext]_vars

----------------------------------------------------------------------------
(* label_and_store_message in a process that may be killed inside the      *)
(* call.  The database is empty at first; no statement of the call opens a *)
(* transaction, so each write is in the file once its statement returned.  *)

\* the process is killed in handler.label_and_store_message() after a
\* write of the call (or before the first one) and before the next one
KillInLabelAndStoreMessage(m, script) ==
    /\ \E writes \in {label_and_store_message_writes(DB, m, script)} :
       \E k \in 0..(Len(writes) - 1) :
       \E left \in {after_writes(DB, SubSeq(writes, 1, k))} :
          /\ call_args' = [message |-> m, script |-> script, before |-> DB]
          /\ call_result' = [status |-> "killed", d |-> left]
          /\ db_messages' = left.messages
          /\ db_skips' = left.skips
          /\ db_message_topics' = left.topics
          /\ db_message_misconceptions' = left.misconceptions
    /\ UNCHANGED <<crawls, now, raised, pc, args, crawl_state,
                   crawl_to_be_resumed_index, stop_check, no_new_messages,
                   crawl_stopped, current_chat_id, pos, runs>>
    /\ UNCHANGED <<crawler, classifier_calls, other_run>>

CrashNext ==
    \/ \E m \in { x \in RelabelMessages : x.message_id = 3 } : \E script \in UserScripts :
          LabelAndStoreMessage(m, script)
    \/ \E m \in { x \in RelabelMessages : x.message_id = 3 } : \E script \in UserScripts :
          KillInLabelAndStoreMessage(m, script)

\* the database is empty at first
CrashInit == RelabelInit /\ db_messages = {}

CrashSpec == CrashInit /\ [][CrashNext]_vars

----------------------------------------------------------------------------
(* NoLabelingMessageHandler.handle_message called by itself, on an empty   *)
(* database at first, with messages as the platform returns them from one  *)
(* crawl to the next: the text of a message may have been edited, and two  *)
(* messages may have the same text.                                        *)

\* handler.handle_message(m)
HandleFetchedMessage(m) ==
    /\ call_args' = [message |-> m, before |-> DB]
    /\ \E handled \in {no_labeling_handle_message(DB, m)} :
          /\ call_result' = handled
          /\ db_messages' = handled.d.messages
    /\ UNCHANGED <<crawls, db_skips, db_message_topics,
                   db_message_misconceptions, now, raised, pc, args,
                   crawl_state, crawl_to_be_resumed_index, stop_check,
                   no_new_messages, crawl_stopped, current_chat_id, pos, runs>>
    /\ UNCHANGED <<crawler, classifier_calls, other_run>>

EditNext ==
    \E m \in { x \in MessageValues : x.chat = 1 /\ x.content \in {"a", "b"} } :
       HandleFetchedMessage(m)

EditSpec == CrashInit /\ [][EditNext]_vars

----------------------------------------------------------------------------
(* Two processes at once.  Each crawler class has a JSON file of its own   *)
(* (CRAWLS_JSON_FILE_PATH), and all share the database data/sqlite.db.     *)
(* Beside the process of Spec, which crawls chat 1 with the                *)
(* BaselineCrawler in no-labeling mode, a second process crawls chat 1     *)
(* with a KeywordSearchCrawler in no-labeling mode; of the second process  *)
(* the pass over the chat is modelled, statement by statement where it     *)
(* reads or writes the database.                                           *)

\* the exception of save(force_insert=True) for a hash that is stored
IntegrityError == "IntegrityError: UNIQUE constraint failed"

\* the chat both processes crawl
ConcurrentChat == 1

\* the message the second process has fetched
OtherMessage == iter_messages(ConcurrentChat, now)[other_run.pos]

\* the filter of the second process skips the message it has fetched
OtherSkips(message) ==
    keyword_message_should_be_skipped(KeywordSearchCrawler(<<"a">>),
                                      NoCrawlState, message,
                                      None, None)

RECURSIVE other_pass(_, _, _, _)

\* the pass of the second process from the i-th message on when no other
\* process writes the database: the exception that ends it, if any, and
\* the rows it has stored
other_pass(table, stored, i, time) ==
    IF i > Len(posted_messages(ConcurrentChat))
    THEN [raised |-> "", stored |-> stored]
    ELSE LET message == iter_messages(ConcurrentChat, time)[i]
             m == from_telethon_message(ConcurrentChat, message, FALSE, time)
             handled == no_labeling_handle_message(
                            [messages |-> table, skips |-> {}, topics |-> {},
                             misconceptions |-> {}], m)
         IN  CASE OtherSkips(message) ->
                    other_pass(table, stored, i + 1, time)
               [] handled.status \in Raises ->
                    [raised |-> handled.status, stored |-> stored]
               [] handled.status = "message stored without labels" ->
                    other_pass(handled.d.messages, stored \cup {m}, i + 1, time)
               [] OTHER ->
                    other_pass(handled.d.messages, stored, i + 1, time)

\* the second process starts its pass over the chat
OtherStart ==
    /\ other_run.pc = "idle"
    /\ other_run' = [other_run EXCEPT !.pc = "chat", !.pos = 1,
                                      !.before = db_messages]
    /\ UNCHANGED <<crawls, db_messages, db_skips, db_message_topics,
                   db_message_misconceptions, now, raised, call_args,
                   call_result, pc, args, crawl_state,
                   crawl_to_be_resumed_index, stop_check, no_new_messages,
                   crawl_stopped, current_chat_id, pos, runs, crawler,
                   classifier_calls>>

\* the second process: the filter skips the message
OtherSkipMessage ==
    /\ other_run.pc = "chat"
    /\ other_run.pos <= Len(posted_messages(ConcurrentChat))
    /\ OtherSkips(OtherMessage)
    /\ other_run' = [other_run EXCEPT !.pos = @ + 1]
    /\ UNCHANGED <<crawls, db_messages, db_skips, db_message_topics,
                   db_message_misconceptions, now, raised, call_args,
                   call_result, pc, args, crawl_state,
                   crawl_to_be_resumed_index, stop_check, no_new_messages,
                   crawl_stopped, current_chat_id, pos, runs, crawler,
                   classifier_calls>>

\* the second process: NoLabelingMessageHandler.handle_message up to the
\* return of message_should_be_skipped
OtherCheck ==
    /\ other_run.pc = "chat"
    /\ other_run.pos <= Len(posted_messages(ConcurrentChat))
    /\ ~OtherSkips(OtherMessage)
    /\ \E m \in {from_telethon_message(ConcurrentChat, OtherMessage, FALSE, now)} :
       \E skip \in {handler_message_should_be_skipped(db_messages, m, TRUE)} :
          CASE skip.result = "raise" ->
                 /\ other_run' = [other_run EXCEPT !.pc = "aborted",
                                                   !.raised = HashCollision]
                 /\ UNCHANGED db_messages
            [] skip.result = "True" ->
                 /\ other_run' = [other_run EXCEPT !.pos = @ + 1]
                 /\ db_messages' = skip.table
            [] OTHER ->
                 /\ other_run' = [other_run EXCEPT !.pc = "save"]
                 /\ db_messages' = skip.table
    /\ UNCHANGED <<crawls, db_skips, db_message_topics,
                   db_message_misconceptions, now, raised, call_args,
                   call_result, pc, args, crawl_state,
                   crawl_to_be_resumed_index, stop_check, no_new_messages,
                   crawl_stopped, current_chat_id, pos, runs, crawler,
                   classifier_calls>>

\* the second process: self.message.save(force_insert=True)
OtherSave ==
    /\ other_run.pc = "save"
    /\ \E m \in {from_telethon_message(ConcurrentChat, OtherMessage, FALSE, now)} :
          IF \E r \in db_messages : r.hash = m.hash
          THEN /\ other_run' = [other_run EXCEPT !.pc = "aborted",
                                                 !.raised = IntegrityError]
               /\ UNCHANGED db_messages
          ELSE /\ other_run' = [other_run EXCEPT !.pc = "chat",
                                                 !.pos = @ + 1,
                                                 !.stored = @ \cup {m}]
               /\ db_messages' = save_force_insert(db_messages, m)
    /\ UNCHANGED <<crawls, db_skips, db_message_topics,
                   db_message_misconceptions, now, raised, call_args,
                   call_result, pc, args, crawl_state,
                   crawl_to_be_resumed_index, stop_check, no_new_messages,
                   crawl_stopped, current_chat_id, pos, runs, crawler,
                   classifier_calls>>

\* the second process: the chat has no more messages
OtherChatEnd ==
    /\ other_run.pc = "chat"
    /\ other_run.pos > Len(posted_messages(ConcurrentChat))
    /\ other_run' = [other_run EXCEPT !.pc = "finished"]
    /\ UNCHANGED <<crawls, db_messages, db_skips, db_message_topics,
                   db_message_misconceptions, now, raised, call_args,
                   call_result, pc, args, crawl_state,
                   crawl_to_be_resumed_index, stop_check, no_new_messages,
                   crawl_stopped, current_chat_id, pos, runs, crawler,
                   classifier_calls>>

ConcurrentNext ==
    \/ Crawl([seed_chat_ids |-> <<ConcurrentChat>>, min_date |-> None,
              max_date |-> None, label_messages |-> FALSE])
    \/ WhileExit
    \/ CallHandleChat
    \/ SkipMessage
    \/ HandleMessage(NoScript)
    \/ ChannelPrivate
    \/ ChatEnd
    \/ FinalStore
    \/ OtherStart
    \/ OtherSkipMessage
    \/ OtherCheck
    \/ OtherSave
    \/ OtherChatEnd

ConcurrentSpec == Init /\ [][ConcurrentNext]_vars

----------------------------------------------------------------------------
(* Properties *)

\* the JSON file holds the crawl state cs at its index
Persisted(file, cs) ==
    /\ Len(file) > cs.index
    /\ file[cs.index + 1] = json_crawl_state(cs)

\* the persisted crawl c was made with the arguments a
SameDefiningParameters(c, a) ==
    /\ c.seed_chats = a.seed_chat_ids
    /\ c.min_date = json_value(a.min_date)
    /\ c.max_date = json_value(a.max_date)
    /\ c.no_labeling_mode = ~a.label_messages

SetOf(list) == { list[i] : i \in 1..Len(list) }

\* the chat identifier c is in at most one of the three collections of cs
InAtMostOne(c, cs) ==
    /\ ~(InSeq(c, cs.chats_to_search) /\ InSeq(c, cs.chats_searched))
    /\ ~(InSeq(c, cs.chats_to_search) /\ InSeq(c, cs.chats_not_searchable))
    /\ ~(InSeq(c, cs.chats_searched) /\ InSeq(c, cs.chats_not_searchable))

\* crawl() has just looked up the crawl state and nothing else happened
JustRetrieved == pc = "loop" /\ stop_check = <<>>

\* C1: in every reachable state, in the crawl state of the process and in
\* every persisted crawl state, each chat identifier is in at most one of
\* chats_to_search, chats_searched and chats_not_searchable.
C1_AtMostOneCollection ==
    /\ \A c \in Chats : InAtMostOne(c, crawl_state)
    /\ \A i \in 1..Len(crawls) : \A c \in Chats : InAtMostOne(c, crawls[i])

\* C2: a chat identifier that is in chats_searched after a step of a run is
\* not in chats_to_search after that step, nor after any later step of the
\* run (chats_searched only grows during a run).
C2_SearchedNeverQueued ==
    [][ \A c \in Chats :
          InSeq(c, crawl_state'.chats_searched)
             => ~InSeq(c, crawl_state'.chats_to_search) ]_vars

\* C3: when handle_message reports "stop crawl", the crawl state is stored
\* unchanged with the handled chat at the front of chats_to_search, the loop
\* of start_or_resume_crawl is left, and after the return a lookup with the
\* same arguments yields a state whose first chat to search is that chat.
C3_StopKeepsChatAtFront ==
    /\ [][ ((\E script \in UserScripts : HandleMessage(script)) /\ pc' = "final")
             => /\ crawl_stopped' = 1
                /\ crawl_state' = crawl_state
                /\ Persisted(crawls', crawl_state')
                /\ Head(crawl_state'.chats_to_search) = current_chat_id ]_vars
    /\ [][ (FinalStore /\ crawl_stopped = 1)
             => /\ Persisted(crawls', crawl_state')
                /\ Head(crawl_state'.chats_to_search) = current_chat_id ]_vars
    /\ [](pc = "returned" /\ crawl_stopped = 1
            => LET r == retrieve_or_initialize_crawl_state(
                           crawls, args.seed_chat_ids, args.min_date,
                           args.max_date, args.label_messages)
               IN  /\ r.index = crawl_state.index
                   /\ r.chats_to_search = crawl_state.chats_to_search
                   /\ Head(r.chats_to_search) = current_chat_id)

\* the user has stopped the crawl in the second chat
C3_Witness ==
    /\ pc = "returned"
    /\ crawl_stopped = 1
    /\ Len(crawl_state.chats_to_search) = 2
    /\ Head(crawl_state.chats_to_search) # Head(crawl_state.seed_chats)

\* C4: after every fetched message that does not end the pass, whether the
\* filter skipped it or the handler got it, the JSON file holds the crawl
\* state of the process.
C4_CheckpointAfterEveryMessage ==
    [][ (pc = "chat" /\ pc' = "chat" /\ pos' = pos + 1)
          => Persisted(crawls', crawl_state') ]_vars

\* C5: every persisted crawl state has its position as index, and a lookup
\* with the arguments it was made with returns its chats_to_search (in
\* order), chats_searched and chats_not_searchable and its index; and what
\* a checkpoint writes is the crawl state of the process.
C5_ResumeIdempotent ==
    /\ [](\A i \in 1..Len(crawls) :
            /\ crawls[i].index = i - 1
            /\ \A a \in Args :
                 SameDefiningParameters(crawls[i], a)
                    => LET r == retrieve_or_initialize_crawl_state(
                                   crawls, a.seed_chat_ids, a.min_date,
                                   a.max_date, a.label_messages)
                       IN  /\ r.index = i - 1
                           /\ r.chats_to_search = crawls[i].chats_to_search
                           /\ r.chats_searched = crawls[i].chats_searched
                           /\ r.chats_not_searchable =
                                 crawls[i].chats_not_searchable)
    /\ [][ (crawls' # crawls) => Persisted(crawls', crawl_state') ]_vars

\* a run that completed one chat and has another one left is resumed
C5_Witness ==
    /\ JustRetrieved
    /\ crawl_to_be_resumed_index # NoIndex
    /\ crawl_state.chats_searched # <<>>
    /\ crawl_state.chats_to_search # <<>>

\* C6 as stated: a crawl is resumed exactly when a persisted crawl has the
\* same set of seed chats, the same normalized dates and the same mode.
C6_ResumeIffSameSeedSet ==
    JustRetrieved =>
        ( (crawl_to_be_resumed_index # NoIndex)
          <=> \E i \in 1..Len(crawls) :
                 /\ SetOf(crawls[i].seed_chats) = SetOf(args.seed_chat_ids)
                 /\ crawls[i].min_date = json_value(args.min_date)
                 /\ crawls[i].max_date = json_value(args.max_date)
                 /\ crawls[i].no_labeling_mode = ~args.label_messages )

\* C6 amended: a crawl is resumed exactly when a persisted crawl has the
\* same list of seed chats (same identifiers in the same order), the same
\* normalized dates and the same mode; the crawl resumed is such a crawl.
C6_ResumeIffSameSeedList ==
    JustRetrieved =>
        /\ (crawl_to_be_resumed_index # NoIndex)
           <=> \E i \in 1..Len(crawls) : SameDefiningParameters(crawls[i], args)
        /\ crawl_to_be_resumed_index # NoIndex
           => /\ SameDefiningParameters(crawls[crawl_to_be_resumed_index + 1], args)
              /\ crawl_state.index = crawl_to_be_resumed_index

\* a crawl is resumed: the persisted crawl has the arguments of the call
C6_Witness ==
    /\ JustRetrieved
    /\ crawl_to_be_resumed_index # NoIndex
    /\ SameDefiningParameters(crawls[crawl_to_be_resumed_index + 1], args)

\* C7: a crawl that matches no persisted crawl starts with the length of
\* the collection as index, the seed chats in order as chats_to_search and
\* an empty chats_searched; while it runs, a write to the collection leaves
\* the crawls of other runs as they are, and its first write appends.
C7_NewCrawlAppends ==
    /\ [](JustRetrieved /\ crawl_to_be_resumed_index = NoIndex
            => /\ crawl_state.index = Len(crawls)
               /\ crawl_state.chats_to_search = args.seed_chat_ids
               /\ crawl_state.chats_searched = <<>>)
    /\ [][ (pc \in {"chat", "final"} /\ crawl_to_be_resumed_index = NoIndex
            /\ crawls' # crawls)
             => /\ Len(crawls') = crawl_state.index + 1
                /\ \A i \in 1..Len(crawls) :
                      crawls'[i] # crawls[i]
                         => /\ i = crawl_state.index + 1
                            /\ SameDefiningParameters(crawls[i], args) ]_vars

\* a new crawl has appended its first checkpoint behind another crawl
C7_Witness ==
    /\ pc = "chat"
    /\ crawl_to_be_resumed_index = NoIndex
    /\ crawl_state.index = 1
    /\ Len(crawls) = 2

C9_AccessDeniedContinues ==
    [][ ChannelPrivate
          => /\ Head(crawl_state.chats_to_search) = current_chat_id
             /\ crawl_state' =
                   [crawl_state EXCEPT
                      !.chats_not_searchable = Append(@, current_chat_id),
                      !.chats_to_search = Tail(@)]
             /\ Persisted(crawls', crawl_state')
             /\ crawl_stopped' = 0
             /\ stop_check' = Append(stop_check, current_chat_id)
             /\ pc' = "loop" ]_vars

\* the next chat is handled after a chat refused access
C9_Witness ==
    /\ pc = "chat"
    /\ crawl_state.chats_not_searchable # <<>>
    /\ ~InSeq(current_chat_id, crawl_state.chats_not_searchable)

\* C10: in a run with a maximum date, when the iteration over a chat ends
\* (no message left or a message before the minimum date), the handled
\* chat is removed from the front of chats_to_search and appended to
\* chats_searched, nothing else of the crawl state changes and the state is
\* stored.
C10_BoundedChatCompletion ==
    [][ (ChatEnd /\ crawl_state.max_date # None)
          => /\ Head(crawl_state.chats_to_search) = current_chat_id
             /\ crawl_state' =
                   [crawl_state EXCEPT
                      !.chats_searched = Append(@, current_chat_id),
                      !.chats_to_search = Tail(@)]
             /\ Persisted(crawls', crawl_state')
             /\ pc' = "loop" ]_vars

\* a bounded run has completed a chat and goes on with the next one
C10_Witness ==
    /\ pc = "chat"
    /\ crawl_state.max_date # None
    /\ crawl_state.chats_searched # <<>>
    /\ crawl_state.chats_not_searchable = <<>>

\* C11: in a run without a maximum date, when the iteration over a chat ends,
\* the handled chat is moved from the front of chats_to_search to its back
\* and is not added to chats_searched; chats_searched is empty in every
\* state of such a run and in every persisted crawl without a maximum date.
C11_UnboundedChatRotation ==
    /\ [][ (ChatEnd /\ crawl_state.max_date = None)
             => /\ Head(crawl_state.chats_to_search) = current_chat_id
                /\ crawl_state' =
                      [crawl_state EXCEPT
                         !.chats_to_search = Append(Tail(@), current_chat_id)]
                /\ Persisted(crawls', crawl_state')
                /\ pc' = "loop" ]_vars
    /\ [](Running /\ crawl_state.max_date = None
            => crawl_state.chats_searched = <<>>)
    /\ [](\A i \in 1..Len(crawls) :
            crawls[i].max_date = json_value(None)
               => crawls[i].chats_searched = <<>>)

\* an unbounded run has completed the first chat and handles the second,
\* the first one waiting behind it
C11_Witness ==
    /\ pc = "chat"
    /\ crawl_state.max_date = None
    /\ stop_check # <<>>
    /\ crawl_state.chats_not_searchable = <<>>
    /\ Len(crawl_state.chats_to_search) = 2
    /\ crawl_state.chats_to_search[2] = stop_check[1]

\* the handler has stored the message m, or found it stored, with a topic
\* or a misconception as label
StoredWithLabel(m, messages, topics, misconceptions) ==
    /\ \E r \in messages : r.hash = m.hash
    /\ \/ \E l \in topics : l.message_hash = m.hash
       \/ \E l \in misconceptions :
             l.message_hash = m.hash /\ l.misconception # NoMisconception

\* C12: in labeling mode, when the handler has stored a handled message with
\* at least one label and the message was forwarded from a chat that is not
\* the handled chat and not in chats_searched, that chat is at the front of
\* chats_to_search after the step.
C12_ForwardOriginQueued ==
    [][ ( /\ \E script \in UserScripts : HandleMessage(script)
          /\ ~crawl_state.no_labeling_mode
          /\ pc' = "chat"
          /\ Message.fwd_from # NoFwd
          /\ Message.fwd_from # current_chat_id
          /\ ~InSeq(Message.fwd_from, crawl_state.chats_searched)
          /\ StoredWithLabel(
                from_telethon_message(current_chat_id, Message, FALSE, now),
                db_messages', db_message_topics', db_message_misconceptions') )
          => /\ crawl_state'.chats_to_search # <<>>
             /\ Head(crawl_state'.chats_to_search) = Message.fwd_from ]_vars

\* C13: when start_or_resume_crawl returns, it has set "finished" to the
\* current time if chats_to_search is empty or the chat at its front was
\* visited in this invocation, and has left the crawl state as it was
\* otherwise; after a stop by the user "finished" is as it was.  Every
\* return comes after this step, which stores the crawl state.
C13_FinishedSetAtExit ==
    /\ [][ FinalStore
             => /\ crawl_state' =
                      IF \/ crawl_state.chats_to_search = <<>>
                         \/ InSeq(Head(crawl_state.chats_to_search), stop_check)
                      THEN [crawl_state EXCEPT !.finished = str(datetime(now))]
                      ELSE crawl_state
                /\ crawl_stopped = 1
                      => crawl_state'.finished = crawl_state.finished
                /\ Persisted(crawls', crawl_state')
                /\ pc' = "returned" ]_vars
    /\ [][ pc' = "returned" => FinalStore ]_vars

\* a run has returned with an empty queue and is marked as finished
C13_Witness ==
    /\ pc = "returned"
    /\ crawl_state.chats_to_search = <<>>
    /\ crawl_state.finished = str(datetime(now))

\* C14: a call of duplicate_exists for a message m, when a stored row r has
\* the hash of m and the content of m, or the chat and the message id of m,
\* returns True and leaves the table with r's content, url, views, forwards
\* and last_retrieved replaced by those of m (chat, message id, hash and
\* creation date of r and all other rows stay); when no stored row has the
\* hash of m, it returns False and leaves the table as it is.
C14_DuplicateRefreshed ==
    [][ \A m \in MessageValues :
          DuplicateExists(m)
             => /\ \A r \in db_messages :
                     ( /\ r.hash = m.hash
                       /\ \/ r.content = m.content
                          \/ r.chat = m.chat /\ r.message_id = m.message_id )
                        => /\ call_result' = "True"
                           /\ db_messages' =
                                 (db_messages \ {r})
                                 \cup { [chat |-> r.chat,
                                         message_id |-> r.message_id,
                                         hash |-> r.hash,
                                         creation_date |-> r.creation_date,
                                         content |-> m.content,
                                         url |-> m.url,
                                         views |-> m.views,
                                         forwards |-> m.forwards,
                                         last_retrieved |-> m.last_retrieved] }
                /\ (\A r \in db_messages : r.hash # m.hash)
                      => /\ call_result' = "False"
                         /\ db_messages' = db_messages ]_vars

\* a call has returned True for a message found under another message id:
\* the stored row has the counters of the message and its own message id
C14_Witness ==
    /\ call_result = "True"
    /\ \E r \in db_messages :
          /\ r.hash = call_args.hash
          /\ r.message_id # call_args.message_id
          /\ r.views = 10
          /\ r.views = call_args.views
          /\ r.last_retrieved = call_args.last_retrieved

\* the message built from the fetched message
HandledMessage == from_telethon_message(current_chat_id, Message, FALSE, now)

\* a stored row has the hash of m, another content and another
\* (chat, message id) pair
HashCollides(m, table) ==
    \E r \in table :
       /\ r.hash = m.hash
       /\ r.content # m.content
       /\ ~(r.chat = m.chat /\ r.message_id = m.message_id)

\* C15: when either handler gets a message whose hash is that of a stored
\* row with another content and another (chat, message id) pair, the
\* exception "Hash collision!" ends the process: the message table and the
\* other tables are as before (no row changed, none inserted), the JSON
\* file is as the last checkpoint left it (the crawl is not marked as
\* finished by this step), and the invocation does not return.
C15_CollisionAborts ==
    [][ ( /\ \E script \in UserScripts : HandleMessage(script)
          /\ HashCollides(HandledMessage, db_messages) )
          => /\ pc' = "aborted"
             /\ raised' = HashCollision
             /\ db_messages' = db_messages
             /\ db_skips' = db_skips
             /\ db_message_topics' = db_message_topics
             /\ db_message_misconceptions' = db_message_misconceptions
             /\ crawls' = crawls ]_vars

\* a labeling run was ended by a collision: the row of "b" is stored, no
\* row of "c", and labels were written before
C15_Witness ==
    /\ pc = "aborted"
    /\ raised = HashCollision
    /\ db_message_misconceptions # {}
    /\ \E r \in db_messages : r.content = "b"
    /\ \A r \in db_messages : r.content # "c"

\* what handle_message does with m if the user enters the script
HandlerResult(m, script) ==
    IF crawl_state.no_labeling_mode
    THEN no_labeling_handle_message(DB, m)
    ELSE labeling_handle_message(DB, m, script)

\* C16: the message table never holds two rows with the same hash.  When
\* either handler gets a message whose content is stored, it reports
\* "message skipped" whatever the user might enter, the stored row gets the
\* url, views, forwards and last_retrieved of the message, no row is
\* inserted, the label and skip tables stay and the crawl goes on with the
\* next message.
C16_OneRowPerHash ==
    /\ [](\A r1, r2 \in db_messages : r1.hash = r2.hash => r1 = r2)
    /\ [][ \A r \in db_messages :
             ( /\ pc = "chat"
               /\ MessagesLeft
               /\ r.content = Message.message
               /\ \E script \in UserScripts : HandleMessage(script) )
             => \A m \in {HandledMessage} :
                /\ \A script \in UserScripts :
                     HandlerResult(m, script).status = "message skipped"
                /\ db_messages' =
                      (db_messages \ {r})
                      \cup { [r EXCEPT !.url = m.url,
                                       !.views = m.views,
                                       !.forwards = m.forwards,
                                       !.last_retrieved = m.last_retrieved] }
                /\ Cardinality(db_messages') = Cardinality(db_messages)
                /\ db_skips' = db_skips
                /\ db_message_topics' = db_message_topics
                /\ db_message_misconceptions' = db_message_misconceptions
                /\ pc' = "chat"
                /\ pos' = pos + 1 ]_vars

\* the labeling handler has got the copy in chat 2 of the message stored
\* from chat 1 at an earlier time: the row has the later counters, the
\* time and the url of the copy, and is the only row with its hash
C16_Witness ==
    /\ pc = "chat"
    /\ ~crawl_state.no_labeling_mode
    /\ current_chat_id = 2
    /\ pos = 4
    /\ now = 1
    /\ \E r \in db_messages :
          /\ r.content = "a"
          /\ r.chat = 1
          /\ r.url = NoUrl
          /\ r.views = 10
          /\ r.last_retrieved = 1
          /\ \A r2 \in db_messages : r2.hash = r.hash => r2 = r

\* C17: the hash of a message is a function of its content alone.  A
\* fetched message with the content of a stored row, whatever chat, message
\* id, counters and time the row was stored with, gets the hash of that
\* row; every stored row has the hash of its content; and no two rows hold
\* the same content.
C17_HashOfContentAlone ==
    /\ [](\A r \in db_messages : r.hash = get_hash(r.content))
    /\ [](\A r1, r2 \in db_messages : r1.content = r2.content => r1 = r2)
    /\ [](pc = "chat" /\ MessagesLeft /\ Message.message # NoText
            => /\ HandledMessage.hash = get_hash(Message.message)
               /\ \A r \in db_messages :
                     r.content = Message.message => r.hash = HandledMessage.hash)

\* the pass-through handler has got, in chat 2, the content stored from
\* chat 1 under another message id: one row holds it
C17_Witness ==
    /\ pc = "chat"
    /\ crawl_state.no_labeling_mode
    /\ current_chat_id = 2
    /\ pos = 4
    /\ Cardinality({ r \in db_messages : r.content = "a" }) = 1
    /\ \E r \in db_messages :
          r.content = "a" /\ r.chat = 1 /\ r.message_id = 3

\* the iterator is at a message dated before the minimum date
BeforeMinDate ==
    /\ pc = "chat"
    /\ MessagesLeft
    /\ crawl_state.min_date # None
    /\ Message.date < crawl_state.min_date.v

\* C18: in a run with a minimum date, when the fetched message is dated
\* before the minimum date, the iteration over the chat ends there: that
\* message is neither skipped and passed over nor given to the handler,
\* also if it has no text, is a poll or is dated after the maximum date;
\* the tables stay as they are, the iterator does not move on, and the chat
\* is completed (by handle_chat's completion step) and the state stored.
C18_StopBeforeMinDate ==
    [][ (BeforeMinDate /\ pc' \notin {"killed"} /\ ~ChannelPrivate)
          => /\ ChatEnd
             /\ crawl_state' = handle_chat_end(crawl_state, current_chat_id,
                                               crawl_state.max_date)
             /\ Persisted(crawls', crawl_state')
             /\ pc' = "loop"
             /\ pos' = pos
             /\ db_messages' = db_messages
             /\ db_skips' = db_skips
             /\ db_message_topics' = db_message_topics
             /\ db_message_misconceptions' = db_message_misconceptions ]_vars

\* the iteration over chat 1 was ended at its message without text that is
\* older than the minimum date: the message after it was not fetched
C18_Witness ==
    /\ pc = "loop"
    /\ current_chat_id = 1
    /\ InSeq(1, stop_check)
    /\ pos <= Len(posted_messages(1))
    /\ crawl_state.min_date # None
    /\ posted_messages(1)[pos].date < crawl_state.min_date.v
    /\ posted_messages(1)[pos].message = NoText
    /\ \A r \in db_messages : r.content # "b"

\* the iterator is at a message that does not end the iteration
NotStopped ==
    /\ pc = "chat"
    /\ MessagesLeft
    /\ ~(crawl_state.min_date # None /\ Message.date < crawl_state.min_date.v)

\* the fetched message has no text, is dated after the maximum date or is
\* a poll
Unsupported ==
    \/ Message.message = NoText
    \/ crawl_state.max_date # None /\ Message.date > crawl_state.max_date.v
    \/ Message.media = "MessageMediaPoll"

\* the fetched message has a text and no stored row has its hash
NewText ==
    /\ Message.message \notin {NoText, ""}
    /\ \A r \in db_messages : r.hash # get_hash(Message.message)

\* after the step the message table holds the fetched message with its hash
StoredAfter ==
    \E r \in db_messages' :
       /\ r.content = Message.message
       /\ r.hash = get_hash(Message.message)
       /\ r.chat = current_chat_id
       /\ r.message_id = Message.id

\* the step is one of handle_chat at the fetched message (the process is
\* not killed and the platform does not refuse the chat)
StepAtMessage == pc' # "killed" /\ ~ChannelPrivate

C20_DatesInclusive ==
    /\ [][ ( /\ pc = "chat" /\ MessagesLeft
             /\ crawl_state.min_date # None
             /\ Message.date = crawl_state.min_date.v
             /\ StepAtMessage )
             => /\ ~ChatEnd
                /\ SkipMessage \/ \E script \in UserScripts : HandleMessage(script)
          ]_vars
    /\ [][ ( /\ NotStopped
             /\ crawl_state.max_date # None
             /\ Message.date = crawl_state.max_date.v
             /\ Message.message # NoText
             /\ Message.media # "MessageMediaPoll"
             /\ StepAtMessage )
             => /\ ~SkipMessage
                /\ \E script \in UserScripts : HandleMessage(script) ]_vars

\* the message of chat 1 that is dated at the minimum and at the maximum
\* date of the crawl was stored and the iteration went on
C20_Witness ==
    /\ pc = "chat"
    /\ current_chat_id = 1
    /\ pos = 2
    /\ crawl_state.min_date = datetime(3)
    /\ crawl_state.max_date = datetime(3)
    /\ \E r \in db_messages :
          r.content = "a" /\ r.chat = 1 /\ r.creation_date = 3

\* the fetched message holds one of the keywords of the crawler
HoldsKeyword ==
    \E i \in 1..Len(crawler.keywords) :
       \E j \in 1..Len(chars(Message.message)) :
          \E k \in j - 1..Len(chars(Message.message)) :
             SubSeq(chars(Message.message), j, k) = chars(crawler.keywords[i])

\* C21: with the KeywordSearchCrawler, a fetched message that holds none of
\* the keywords of the crawler (as a part of its text, letter case
\* counting) is never given to the message handler: the step at it is the
\* filter's, which leaves the tables as they are; with an empty list of
\* keywords no message is given to the handler; a row that a step of such a
\* crawl stores holds one of the keywords.
C21_KeywordFilter ==
    /\ [][ ( /\ crawler.class = "KeywordSearchCrawler"
             /\ NotStopped
             /\ StepAtMessage
             /\ Message.message = NoText \/ ~HoldsKeyword )
             => /\ SkipMessage
                /\ ~\E script \in UserScripts : HandleMessage(script)
                /\ db_messages' = db_messages ]_vars
    /\ [][ ( /\ crawler.class = "KeywordSearchCrawler"
             /\ crawler.keywords = << >> )
             => ~\E script \in UserScripts : HandleMessage(script) ]_vars
    /\ [][ crawler.class = "KeywordSearchCrawler"
             => \A r \in db_messages' :
                   (\A old \in db_messages : old.hash # r.hash)
                      => \E i \in 1..Len(crawler.keywords) :
                            contains(r.content, crawler.keywords[i]) ]_vars

\* a crawl with the keywords "b" and "ab" has passed over chat 4: "cab" and
\* "ba" are stored, "Ab" (it holds "b") too, "a" is not
C21_Witness ==
    /\ pc = "loop"
    /\ crawler = KeywordSearchCrawler(<<"b", "ab">>)
    /\ InSeq(KeywordChat, stop_check)
    /\ { r.content : r \in db_messages } = {"cab", "Ab", "ba"}

\* C22: a call of the filter of the BinaryClassifierCrawler for a message
\* whose id is in current_chat_classified_messages_ids does not call the
\* classifier: it skips the message and leaves the crawl state as it is.
\* When the classifier is called and says "irrelevant", the message is
\* skipped and its id is appended to current_chat_classified_messages_ids,
\* nothing else of the crawl state changing.
C22_NeverClassifiedTwice ==
    [][ /\ InSeq(call_args'.message.id,
                 call_args'.crawl_state.current_chat_classified_messages_ids)
           => /\ ~call_result'.classified
              /\ call_result'.result = "True"
              /\ call_result'.cs = call_args'.crawl_state
        /\ ( /\ call_result'.classified
             /\ call_args'.classification = "irrelevant" )
           => /\ call_result'.result = "True"
              /\ call_result'.cs =
                    [call_args'.crawl_state EXCEPT
                       !.current_chat_classified_messages_ids =
                           Append(@, call_args'.message.id)] ]_vars

\* the filter was called for the message with id 3 and text "a" of chat 1,
\* whose id is among the classified ones, with a classifier that would
\* have said "relevant": the message was skipped without a call of it
C22_Witness ==
    /\ call_result.result = "True"
    /\ ~call_result.classified
    /\ call_args.classification = "relevant"
    /\ call_args.message.message = "a"
    /\ call_args.message.id = 3
    /\ call_args.crawl_state.current_chat_classified_messages_ids = <<3, 1>>

\* C23: with the BinaryClassifierCrawler, a message of a chat that was
\* classified by a process is not passed to the classifier by a later
\* process that crawls with the same parameters (the process before was
\* killed or ended by an exception in the pass over the chat).
C23_ResumeNeverReclassifies ==
    [][ \A i \in 1..Len(classifier_calls') :
          \A j \in 1..Len(classifier_calls) :
             ( /\ i > Len(classifier_calls)
               /\ classifier_calls[j].result # ClassifierFailure
               /\ classifier_calls[j].run < classifier_calls'[i].run
               /\ classifier_calls[j].crawl = classifier_calls'[i].crawl
               /\ classifier_calls[j].chat = classifier_calls'[i].chat )
             => classifier_calls[j].id # classifier_calls'[i].id ]_vars

\* classified_chat_until holds an id for the chat of the pass, and the id
\* of the fetched message is at or below it
AtOrBelowRecorded ==
    /\ current_chat_id \in DOMAIN crawl_state.classified_chat_until
    /\ Message.id <= crawl_state.classified_chat_until[current_chat_id]

\* a step of the pass of the BinaryClassifierCrawler at a fetched message
\* that is not dated before the minimum date (the process is not killed
\* and the platform does not refuse the chat)
ClassifierStepAtMessage ==
    /\ InClassifierPass
    /\ MessagesLeft
    /\ ~(crawl_state.min_date # None /\ Message.date < crawl_state.min_date.v)
    /\ pc' # "killed"
    /\ ~ClassifierChannelPrivate

\* C24: with the BinaryClassifierCrawler in a run without a maximum date,
\* the pass over a chat ends at a fetched message exactly if its id is at or
\* below the id that classified_chat_until holds for the chat; the message
\* is then neither classified nor handled.  In a run with a maximum date,
\* and for a chat without an id in classified_chat_until, the pass does not
\* end at such a message: the filter or the handler gets it.
C24_StopAtRecordedId ==
    /\ [][ (ClassifierStepAtMessage /\ crawl_state.max_date = None)
             => /\ AtOrBelowRecorded <=> ClassifierChatEnd
                /\ AtOrBelowRecorded
                      => /\ classifier_calls' = classifier_calls
                         /\ db_messages' = db_messages ]_vars
    /\ [][ ( /\ ClassifierStepAtMessage
             /\ \/ crawl_state.max_date # None
                \/ current_chat_id \notin DOMAIN crawl_state.classified_chat_until )
             => /\ ~ClassifierChatEnd
                /\ \/ \E classification \in Classifications :
                         \/ ClassifierSkipMessage(classification)
                         \/ ClassifierRaises(classification)
                   \/ \E classification \in Classifications :
                      \E script \in UserScripts :
                         ClassifierHandleMessage(classification, script) ]_vars

\* a run without a maximum date over chat 2, for which the id 2 is
\* recorded, has classified the message with id 4 and no other one, and
\* the pass has ended (at the message with id 2)
C24_Witness ==
    /\ runs = 1
    /\ pc = "aborted"
    /\ raised = TypeErrorAt(556)
    /\ Len(classifier_calls) = 1
    /\ classifier_calls[1].chat = 2
    /\ classifier_calls[1].id = 4
    /\ classifier_calls[1].result = "irrelevant"
    /\ classifier_calls[1].crawl[3] = None

\* C25: when the call of the classifier fails for a fetched message, the
\* message is skipped: the pass goes on with the next message of the chat,
\* no exception ends the run and nothing is stored for the message.
C25_ClassifierFailureIsASkip ==
    [][ ( /\ Len(classifier_calls') = Len(classifier_calls) + 1
          /\ classifier_calls'[Len(classifier_calls')].result = ClassifierFailure )
        => /\ pc' = "chat"
           /\ pos' = pos + 1
           /\ raised' = raised
           /\ db_messages' = db_messages ]_vars

\* the labels a selection stands for: its topics, and its misconceptions
\* or, if there are none, "no misconception"
labels_of_selection(t) ==
    [topics |-> t.selected_topics,
     misconceptions |-> IF t.selected_misconceptions = {}
                        THEN {NoMisconception}
                        ELSE t.selected_misconceptions]

EmptySelectionConfirmed ==
    /\ call_result.status # NoCall
    /\ \E r \in call_args.before.messages : r.hash = call_args.message.hash
    /\ topics_of(call_args.before, call_args.message) # {}
    /\ misconceptions_of(call_args.before, call_args.message)
          \cap Misconceptions # {}
    /\ Len(call_args.script) = 1
    /\ call_args.script[1].selected_topics = {}
    /\ call_args.script[1].selected_misconceptions = {}
    /\ call_args.script[1].answer = "store"

\* C27: after a stored message with a topic label and a misconception label
\* was labeled again with an empty selection that the user confirmed, the
\* MessageMisconception table holds one row for its hash, the row of "no
\* misconception", and the MessageTopic table holds no row for its hash.
C27_EmptyRelabelLeavesSentinel ==
    EmptySelectionConfirmed
    => /\ call_result.status = "message stored without labels"
       /\ { r \in db_message_misconceptions :
               r.message_hash = call_args.message.hash }
             = { MessageMisconception(call_args.message, NoMisconception) }
       /\ { r \in db_message_topics :
               r.message_hash = call_args.message.hash } = {}

\* such a call was made for a message that had the topic, a misconception
\* and "no misconception" as labels
C27_Witness ==
    /\ EmptySelectionConfirmed
    /\ misconceptions_of(call_args.before, call_args.message)
          = {"misconception", NoMisconception}
    /\ Cardinality({ r \in db_message_misconceptions :
                       r.message_hash = call_args.message.hash }) = 1

\* C28: the MessageTopic rows, the MessageMisconception rows and the
\* MessageToSkip rows all have the hash of a row of the message table, and
\* every message the labeling handler stored has a MessageMisconception
\* row (of a misconception or of "no misconception"), in every state of
\* the database, those left by a kill inside label_and_store_message
\* included.
C28_StoredAsOneUnit ==
    /\ \A r \in db_message_topics \cup db_message_misconceptions :
          \E m \in db_messages : m.hash = r.message_hash
    /\ \A h \in db_skips : \E m \in db_messages : m.hash = h
    /\ \A m \in db_messages : misconceptions_of(DB, m) # {}

\* C29: a step that changes the JSON file changes or appends one record,
\* the one at the position of the index of the crawl state of the running
\* process, and writes that crawl state there; every other record is as
\* before and no record is removed.  In every state the record at position
\* i (counted from 0) has index i.
C29_CheckpointReplacesOwnRecord ==
    /\ [][ crawls' # crawls
             => /\ Running
                /\ Len(crawls') = IF crawl_state.index = Len(crawls)
                                  THEN Len(crawls) + 1
                                  ELSE Len(crawls)
                /\ crawl_state.index < Len(crawls')
                /\ crawls'[crawl_state.index + 1].index = crawl_state.index
                /\ \A i \in 1..Len(crawls) :
                      i # crawl_state.index + 1 => crawls'[i] = crawls[i] ]_vars
    /\ [](\A i \in 1..Len(crawls) : crawls[i].index = i - 1)

\* the second crawl of the file was checkpointed after a chat was searched,
\* below a first crawl that is not finished
C29_Witness ==
    /\ pc = "loop"
    /\ Len(crawls) = 2
    /\ crawl_state.index = 1
    /\ crawl_state.chats_searched # <<>>
    /\ crawls[2] = json_crawl_state(crawl_state)
    /\ crawls[1].finished = None

\* C30: a run that executes while another process crawls with another
\* JSON file ends as it ends when it executes by itself from the database
\* it found, with the same exception or with none, and has stored the same
\* messages (stated for the second process).
C30_RunsDoNotInterfere ==
    other_run.pc \in {"finished", "aborted"}
    => \E alone \in {other_pass(other_run.before, {}, 1, 0)} :
          /\ other_run.raised = alone.raised
          /\ { m.hash : m \in other_run.stored }
                = { m.hash : m \in alone.stored }

\* C31: while a BinaryClassifierCrawler runs, classified_chat_until is
\* written and current_chat_classified_messages_ids is emptied only in the
\* step that ends the pass over a chat; what is written is the entry of
\* that chat, and its value is the highest id among the messages of the
\* chat that were classified in the pass.
C31_UntilWrittenAfterPass ==
    [][ ( /\ crawler.class = "BinaryClassifierCrawler"
          /\ pc \in {"loop", "chat"}
          /\ pc' \in {"loop", "chat", "final"}
          /\ \/ crawl_state'.classified_chat_until
                   # crawl_state.classified_chat_until
             \/ /\ crawl_state.current_chat_classified_messages_ids # << >>
                /\ crawl_state'.current_chat_classified_messages_ids = << >> )
        => /\ pc = "chat"
           /\ pc' # "chat"
           /\ crawl_state'.classified_chat_until
                 # crawl_state.classified_chat_until
               => \E j \in 1..Len(classifier_calls) :
                     /\ classifier_calls[j].run = runs
                     /\ classifier_calls[j].chat = current_chat_id
                     /\ \A k \in 1..Len(classifier_calls) :
                           ( /\ classifier_calls[k].run = runs
                             /\ classifier_calls[k].chat = current_chat_id )
                           => classifier_calls[k].id <= classifier_calls[j].id
                     /\ crawl_state'.classified_chat_until
                           = dict_set(crawl_state.classified_chat_until,
                                      current_chat_id, classifier_calls[j].id) ]_vars

\* C32: when a BinaryClassifierCrawler has classified a message as relevant
\* and the message handler has returned for it, the checkpoint that follows
\* writes the crawl state to the JSON file with the id of the message in
\* current_chat_classified_messages_ids, and the process goes on.
C32_CheckpointRecordsHandledId ==
    [][ ( /\ InClassifierPass
          /\ Len(classifier_calls') = Len(classifier_calls) + 1
          /\ classifier_calls'[Len(classifier_calls')].result = "relevant"
          /\ raised' \notin Raises )
        => /\ pc' \in {"chat", "final"}
           /\ crawl_state.index < Len(crawls')
           /\ InSeq(Message.id,
                    crawls'[crawl_state.index + 1].current_chat_classified_messages_ids)
           /\ InSeq(Message.id,
                    crawl_state'.current_chat_classified_messages_ids) ]_vars

\* C33: a call of label_and_store_message ends with the status "stop
\* crawl", "message stored without labels" or "message stored with labels",
\* never with an exception; when the user has selected a topic and a
\* misconception, the status is "message stored with labels", the message
\* is stored and it has the selected topics and misconceptions as labels.
C33_LabelingEndsWithStatus ==
    call_result.status # NoCall
    => /\ call_result.status \in {"stop crawl", "message stored without labels",
                                  "message stored with labels"}
       /\ ( /\ call_args.script[1].selected_topics # {}
            /\ call_args.script[1].selected_misconceptions # {} )
          => /\ call_result.status = "message stored with labels"
             /\ \E r \in db_messages : r.hash = call_args.message.hash
             /\ topics_of(DB, call_args.message)
                   = call_args.script[1].selected_topics
             /\ misconceptions_of(DB, call_args.message)
                   = call_args.script[1].selected_misconceptions

\* C34: when the user answers the menu for an empty selection with "skip
\* the message without storing it?" or "mark the message for later
\* inspection?" for a message that is not stored, label_and_store_message
\* records a MessageToSkip row for the hash, inserts no message row and no
\* label row for it, and the status is "message skipped".
C34_SkipStoresNothing ==
    ( /\ call_result.status # NoCall
      /\ call_args.script[Len(call_args.script)].answer \in {"skip", "later"}
      /\ ~\E r \in call_args.before.messages : r.hash = call_args.message.hash )
    => /\ call_result.status = "message skipped"
       /\ call_args.message.hash \in db_skips
       /\ ~\E r \in db_messages : r.hash = call_args.message.hash
       /\ topics_of(DB, call_args.message) = {}
       /\ misconceptions_of(DB, call_args.message) = {}

\* C35: when the user answers the menu with "stop the crawl?",
\* label_and_store_message returns "stop crawl"; and when it returns "stop
\* crawl", the message table, the MessageTopic and MessageMisconception
\* tables and the MessageToSkip table are as they were before the call.
C35_StopLeavesStoreUnchanged ==
    /\ call_result.status = "stop crawl" => DB = call_args.before
    /\ ( /\ call_result.status # NoCall
         /\ MenuShown(call_args.script[Len(call_args.script)])
         /\ call_args.script[Len(call_args.script)].answer = "stop" )
       => call_result.status = "stop crawl"

\* the user stopped the crawl at a message that was stored with labels, in
\* the second round of prompts
C35_Witness ==
    /\ call_result.status = "stop crawl"
    /\ Len(call_args.script) = 2
    /\ \E r \in db_messages : r.hash = call_args.message.hash
    /\ topics_of(DB, call_args.message) # {}
    /\ misconceptions_of(DB, call_args.message) # {}

\* C36: the message table holds at most one row for a chat and a message
\* id; when a message is handled whose chat and message id are those of a
\* stored row with another content, that row gets the new content and no
\* row is added.
C36_EditedMessageUpdatesRecord ==
    /\ \A r1 \in db_messages : \A r2 \in db_messages :
          (r1.chat = r2.chat /\ r1.message_id = r2.message_id) => r1 = r2
    /\ ( /\ call_result.status # NoCall
         /\ \E r \in call_args.before.messages :
               /\ r.chat = call_args.message.chat
               /\ r.message_id = call_args.message.message_id
               /\ r.content # call_args.message.content )
       => /\ call_result.status = "message skipped"
          /\ Cardinality(db_messages) = Cardinality(call_args.before.messages)
          /\ \E r \in db_messages :
                /\ r.chat = call_args.message.chat
                /\ r.message_id = call_args.message.message_id
                /\ r.content = call_args.message.content

\* C37: when the user answers the menu with "label the message again?",
\* selects again and has the message stored, the message has, after
\* label_and_store_message returned, exactly the topics and misconceptions
\* of the second selection ("no misconception" for none).
C37_LastSelectionIsStored ==
    ( /\ call_result.status # NoCall
      /\ Len(call_args.script) = 2
      /\ MenuShown(call_args.script[2])
      /\ call_args.script[2].answer = "store" )
    => /\ topics_of(DB, call_args.message)
             = labels_of_selection(call_args.script[2]).topics
       /\ misconceptions_of(DB, call_args.message)
             = labels_of_selection(call_args.script[2]).misconceptions

----------------------------------------------------------------------------
(* C38 (crawler.py 509-557).  Checked on LabelingSpec, the runs that label *)
(* and store messages, one of them forwarded from a chat that is no seed.  *)

----------------------------------------------------------------------------
(* C39 (crawler.py 430-434, 509-513, 931-935).  A labeling run over the    *)
(* chats 1 and 2 is resumed after an invocation that the cycle check has   *)
(* ended: at that time each chat held its first message only, the user     *)
(* had the message of chat 1 skipped (the one of chat 2 has the same       *)
(* hash), and both chats went to the back of the queue.  The chats have    *)
(* got their other messages since.                                         *)

ResumeInit ==
    /\ crawls = << json_crawl_state(
                      mark_finished(
                         handle_chat_end(
                            handle_chat_end(
                               new_crawl_state(<<>>, <<1, 2>>, None, None, TRUE),
                               1, None),
                            2, None),
                         1, 0)) >>
    /\ db_messages = {}
    /\ db_skips = {get_hash("b")}
    /\ db_message_topics = {}
    /\ db_message_misconceptions = {}
    /\ now = 0
    /\ raised = ""
    /\ call_args = NoCall
    /\ call_result = NoCall
    /\ pc = "idle"
    /\ args = NoArgs
    /\ crawl_state = NoCrawlState
    /\ crawl_to_be_resumed_index = NoIndex
    /\ stop_check = <<>>
    /\ no_new_messages = 0
    /\ crawl_stopped = 0
    /\ current_chat_id = NoIndex
    /\ pos = 0
    /\ runs = 0
    /\ crawler = BaselineCrawler
    /\ classifier_calls = <<>>
    /\ other_run = NoOtherRun

ResumeSpec == ResumeInit /\ [][LabelingNext]_vars

\* C39: once the user has stopped the crawl, the persisted state of the run
\* carries no finish timestamp, in the checkpoint that handle_chat writes on
\* the stop and in the one start_or_resume_crawl writes before it returns.
C39_StopCheckpointHasNoFinish ==
    crawl_stopped = 1
       => crawls[crawl_state.index + 1].finished = json_value(None)

----------------------------------------------------------------------------
(* C40 (crawler.py 99-119, 488-557, 916-935).  Checked on FairSpec, where  *)
(* a process that is not killed keeps taking its steps.                    *)

\* the invocation is one of a bounded run in no-labeling mode from seed
\* chats that are distinct
BoundedNoLabelingRun ==
    /\ args.max_date # None
    /\ ~args.label_messages
    /\ args.seed_chat_ids # <<>>
    /\ Cardinality(SetOf(args.seed_chat_ids)) = Len(args.seed_chat_ids)

\* start_or_resume_crawl has returned with the run finished: the queue is
\* empty, the finish timestamp is set and stored, and every seed chat is
\* once in chats_searched or once in chats_not_searchable, never in both
FinishedWithEverySeedHandled ==
    /\ pc = "returned"
    /\ crawl_state.chats_to_search = <<>>
    /\ crawl_state.finished # None
    /\ Persisted(crawls, crawl_state)
    /\ \A c \in SetOf(args.seed_chat_ids) :
          Cardinality({ i \in 1..Len(crawl_state.chats_searched) :
                          crawl_state.chats_searched[i] = c })
          + Cardinality({ i \in 1..Len(crawl_state.chats_not_searchable) :
                            crawl_state.chats_not_searchable[i] = c }) = 1

\* C40 as stated: a bounded run in no-labeling mode from distinct seed
\* chats is never stopped by the user, every invocation of it eventually
\* returns with the run finished, the queue empty and every seed chat in
\* exactly one of chats_searched and chats_not_searchable, and each
\* completed call of handle_chat shortens the queue by one.
C40_BoundedRunFinishes ==
    /\ [](BoundedNoLabelingRun => crawl_stopped = 0)
    /\ \A n \in 1..MaxRuns :
          []((Running /\ BoundedNoLabelingRun /\ runs = n)
               => <>(runs = n /\ FinishedWithEverySeedHandled))
    /\ [][ (BoundedNoLabelingRun /\ pc = "chat" /\ pc' = "loop")
             => Len(crawl_state'.chats_to_search)
                  = Len(crawl_state.chats_to_search) - 1 ]_vars

\* C40 amended: a bounded run in no-labeling mode from distinct seed chats
\* is never stopped by the user; every invocation of it eventually returns
\* with the run finished as above, or an exception raised while a message
\* is handled ends it; whenever such an invocation has returned, the run is
\* finished as above; each completed call of handle_chat shortens the
\* queue by one.
C40_BoundedRunFinishesOrRaises ==
    /\ [](BoundedNoLabelingRun => crawl_stopped = 0)
    /\ \A n \in 1..MaxRuns :
          []((Running /\ BoundedNoLabelingRun /\ runs = n)
               => <>(runs = n /\ (\/ FinishedWithEverySeedHandled
                                  \/ pc = "aborted")))
    /\ []((BoundedNoLabelingRun /\ pc = "returned")
            => FinishedWithEverySeedHandled)
    /\ [][ (BoundedNoLabelingRun /\ pc = "chat" /\ pc' = "aborted")
             => \E script \in UserScripts : HandleMessage(script) ]_vars
    /\ [][ (BoundedNoLabelingRun /\ pc = "chat" /\ pc' = "loop")
             => Len(crawl_state'.chats_to_search)
                  = Len(crawl_state.chats_to_search) - 1 ]_vars

\* a bounded run over both chats has finished: one chat was searched, the
\* other one was not searchable
C40_Witness ==
    /\ BoundedNoLabelingRun
    /\ FinishedWithEverySeedHandled
    /\ Len(crawl_state.chats_searched) = 1
    /\ Len(crawl_state.chats_not_searchable) = 1

====
